---- MODULE Spec2Model ----
(***************************************************************************)
(* Model of keep/providers/providers_service.py (ProvidersService): the    *)
(* Provider table, the secret store, the event-subscriber registry and the *)
(* deduplication rules, with one action per service operation; and of the  *)
(* AI assistant (keep/api/ai_assistant, keep/api/routes/ai_assistant.py):  *)
(* the conversation store, the chat requests in flight and the responses.  *)
(***************************************************************************)
EXTENDS Integers, Sequences, FiniteSets, TLC

VARIABLES providers, secrets, consumers, rules, last,
          client, conversations, requests, response

vars == <<providers, secrets, consumers, rules, last,
          client, conversations, requests, response>>

providerVars == <<providers, secrets, consumers, rules, last>>

assistantVars == <<client, conversations, requests, response>>

(***************************************************************************)
(* Bounds and input domains                                                *)
(***************************************************************************)
\* number of provider ids (uuid4 values) that may be in use at once
MaxProviders == 2
\* number of entries of a provisioning source (env var dict / directory)
MaxEntries == 2

Ids == 1..MaxProviders
Tenants == {"t1", "t2"}
Names == {"a", "b"}
\* "grafana" declares scopes, "kafka" is an event consumer without scopes
Types == {"grafana", "kafka"}
\* a configuration stands for how the plugin reacts to it
Configs == {"good", "denied", "absent", "empty", "raises", "invalid"}

NoScopes == [s \in {} |-> "True"]

(***************************************************************************)
(* Provider plugins, as seen through ProvidersFactory                       *)
(***************************************************************************)
\* ProvidersFactory.get_provider raises on a configuration it rejects
FactoryRaises(cfg) == cfg = "invalid"

\* provider.is_consumer
IsConsumer(ty) == ty = "kafka"

\* provider.PROVIDER_SCOPES: sequence of [name, mandatory]
PROVIDER_SCOPES(ty) ==
    IF ty = "grafana"
    THEN << [name |-> "read", mandatory |-> TRUE],
            [name |-> "write", mandatory |-> FALSE] >>
    ELSE << >>

\* provider.validate_scopes() raises
PluginScopesRaise(cfg) == cfg = "raises"

\* provider.validate_scopes(): scope name -> "True" | error message
PluginScopes(cfg) ==
    CASE cfg = "good"   -> [s \in {"read", "write"} |-> "True"]
      [] cfg = "denied" -> [s \in {"read", "write"} |->
                               IF s = "read" THEN "missing permission" ELSE "True"]
      [] cfg = "absent" -> [s \in {"write"} |-> "True"]
      [] OTHER          -> NoScopes

(***************************************************************************)
(* The database handle: the four stores the service reads and writes        *)
(***************************************************************************)
Db(p, s, c, r) == [providers |-> p, secrets |-> s, consumers |-> c, rules |-> r]

CurDb == Db(providers, secrets, consumers, rules)

\* f"{tenant_id}_{provider_type}_{provider_unique_id}"
SecretName(tenant_id, provider_type, provider_unique_id) ==
    tenant_id \o "_" \o provider_type \o "_" \o ToString(provider_unique_id)

\* {"authentication": provider_config, "name": provider_name}
Config(provider_config, provider_name) ==
    [authentication |-> provider_config, name |-> provider_name]

\* secret_manager.write_secret
WriteSecret(s, key, value) ==
    [k \in DOMAIN s \cup {key} |-> IF k = key THEN value ELSE s[k]]

\* secret_manager.delete_secret
DeleteSecret(s, key) == [k \in DOMAIN s \ {key} |-> s[k]]

\* FindProvider that looks the id up in every tenant
FindProviderAnyTenant(db, tenant_id, provider_id) ==
    provider_id \in DOMAIN db.providers

\* select(Provider).where(tenant_id == t, id == provider_id).one_or_none()
FindProvider(db, tenant_id, provider_id) ==
    provider_id \in DOMAIN db.providers
        /\ db.providers[provider_id].tenant_id = tenant_id

\* get_provider_by_name(tenant_id, provider_name): ids of the matching rows
ProvidersByName(db, tenant_id, provider_name) ==
    {i \in DOMAIN db.providers :
        /\ db.providers[i].tenant_id = tenant_id
        /\ db.providers[i].name = provider_name}

\* the provisioned providers of the tenant
ProvisionedIds(db, tenant_id) ==
    {i \in DOMAIN db.providers :
        /\ db.providers[i].tenant_id = tenant_id
        /\ db.providers[i].provisioned}

\* get_all_provisioned_providers(tenant_id): the list of the provisioned
\* providers of the tenant. The query has no order of its own, so the list
\* is any one of the orders the store may give
get_all_provisioned_providers(db, tenant_id) ==
    {l \in [1..Cardinality(ProvisionedIds(db, tenant_id)) ->
                ProvisionedIds(db, tenant_id)] :
        \A j, k \in DOMAIN l : j # k => l[j] # l[k]}

\* the secret names that carry id i
SecretNamesOf ==
    [i \in Ids |-> {SecretName(t, ty, i) : t \in Tenants \cup {"None"}, ty \in Types}]

\* uuid.uuid4().hex: an id nothing in the system refers to
IdInUse(db, i) ==
    \/ i \in DOMAIN db.providers
    \/ i \in db.consumers
    \/ \E r \in db.rules : r[1] = i
    \/ \E k \in DOMAIN db.secrets : k \in SecretNamesOf[i]

FreeIds(db) == {i \in Ids : ~IdInUse(db, i)}

(***************************************************************************)
(* Environment faults a call can meet (exceptions raised by the database,  *)
(* the secret manager, the event subscriber or the plugin)                  *)
(***************************************************************************)
FaultKinds == {"commit_fk", "add_consumer", "dedup", "read_secret",
               "delete_secret", "remove_consumer", "clean_up"}

\* what a service call hands back: the stores after it, how it ended ("ok" =
\* returned normally, otherwise the HTTP status or exception raised), the
\* provider id it returns, the validated scopes it returns, the steps it
\* took in order, and the exceptions it caught and logged
Result(db, status, id, scopes, log, errs) ==
    [db |-> db, status |-> status, id |-> id, scopes |-> scopes,
     log |-> log, errs |-> errs]

\* MandatoryScopesValidated that accepts any value of a mandatory scope
MandatoryScopesPresent(ty, validated_scopes) ==
    \A k \in DOMAIN PROVIDER_SCOPES(ty) :
        LET scope == PROVIDER_SCOPES(ty)[k] IN
        ~(scope.mandatory /\ scope.name \notin DOMAIN validated_scopes)

\* the for/break loop of validate_scopes: no mandatory scope is missing or
\* has a value other than True
MandatoryScopesValidated(ty, validated_scopes) ==
    \A k \in DOMAIN PROVIDER_SCOPES(ty) :
        LET scope == PROVIDER_SCOPES(ty)[k] IN
        ~(scope.mandatory
            /\ (scope.name \notin DOMAIN validated_scopes
                \/ validated_scopes[scope.name] # "True"))

\* ProvidersService.validate_scopes(provider, validate_mandatory):
\* [status, scopes]
validate_scopes(ty, cfg, validate_mandatory) ==
    IF PluginScopesRaise(cfg)
    THEN [status |-> "412", scopes |-> NoScopes]
    ELSE LET validated_scopes == PluginScopes(cfg)
             mandatory_scopes_validated ==
                 IF PROVIDER_SCOPES(ty) # << >> /\ DOMAIN validated_scopes # {}
                 THEN MandatoryScopesValidated(ty, validated_scopes)
                 ELSE TRUE
         IN IF validate_mandatory /\ ~mandatory_scopes_validated
            THEN [status |-> "412", scopes |-> validated_scopes]
            ELSE [status |-> "ok", scopes |-> validated_scopes]

\* the Provider table's unique key on (tenant_id, name): the insert of a
\* second row with the name raises an IntegrityError that names no FOREIGN
\* KEY constraint
UniqueKeyViolated(db, tenant_id, provider_name) ==
    ProvidersByName(db, tenant_id, provider_name) # {}

\* session.add(provider_model); session.commit() and the IntegrityError
\* handler of install_provider: "ok", "raise" (FOREIGN KEY constraint) or
\* "swallowed" (any other IntegrityError: the unique (tenant_id, name) key)
InstallCommit(db, tenant_id, provider_name, f) ==
    IF "commit_fk" \in f THEN "raise"
    ELSE IF UniqueKeyViolated(db, tenant_id, provider_name) THEN "swallowed"
    ELSE "ok"

\* ProvidersService.install_provider
install_provider(db, tenant_id, installed_by, provider_name, provider_type, provider_config, provisioned, validate, pulling_enabled, provider_unique_id, f) ==
    IF FactoryRaises(provider_config)
    THEN Result(db, "400", provider_unique_id, NoScopes, << >>, {})
    ELSE
    LET v == IF validate THEN validate_scopes(provider_type, provider_config, TRUE)
             ELSE [status |-> "ok", scopes |-> NoScopes]
    IN
    IF v.status # "ok"
    THEN Result(db, v.status, provider_unique_id, NoScopes, << >>, {})
    ELSE
    LET secret_name == SecretName(tenant_id, provider_type, provider_unique_id)
        secrets1 == WriteSecret(db.secrets, secret_name,
                                Config(provider_config, provider_name))
        db1 == [db EXCEPT !.secrets = secrets1]
        provider_model ==
            [tenant_id |-> tenant_id, name |-> provider_name,
             type |-> provider_type, installed_by |-> installed_by,
             configuration_key |-> secret_name, validatedScopes |-> v.scopes,
             consumer |-> IsConsumer(provider_type),
             provisioned |-> provisioned, pulling_enabled |-> pulling_enabled]
        commit == InstallCommit(db, tenant_id, provider_name, f)
        db2 == IF commit = "ok"
               THEN [db1 EXCEPT !.providers =
                        [i \in DOMAIN db.providers \cup {provider_unique_id} |->
                            IF i = provider_unique_id THEN provider_model
                            ELSE db.providers[i]]]
               ELSE db1
        register == provider_model.consumer /\ "add_consumer" \notin f
        db3 == IF register
               THEN [db2 EXCEPT !.consumers = @ \cup {provider_unique_id}]
               ELSE db2
    IN
    IF commit = "raise"
    THEN Result(db1, "IntegrityError", provider_unique_id, NoScopes,
                <<"write_secret", "commit">>, {})
    ELSE Result(db3, "ok", provider_unique_id, v.scopes,
                <<"write_secret", "commit">>
                    \o (IF provider_model.consumer THEN <<"add_consumer">> ELSE << >>),
                (IF commit = "swallowed" THEN {"commit"} ELSE {})
                    \cup (IF provider_model.consumer /\ "add_consumer" \in f
                          THEN {"add_consumer"} ELSE {}))

\* ProvidersService.prepare_provider: tenant_id is None, so the secret is
\* named "None_<type>_<uuid>"; it is written and deleted at once, and a
\* failure of the deletion is logged and passed over
prepare_provider(db, provider_id, provider_name, provider_type, provider_config, validate, provider_unique_id, f) ==
    IF FactoryRaises(provider_config)
    THEN Result(db, "400", provider_unique_id, NoScopes, << >>, {})
    ELSE
    LET v == IF validate THEN validate_scopes(provider_type, provider_config, TRUE)
             ELSE [status |-> "ok", scopes |-> NoScopes]
    IN
    IF v.status # "ok"
    THEN Result(db, v.status, provider_unique_id, NoScopes, << >>, {})
    ELSE
    LET secret_name == SecretName("None", provider_type, provider_unique_id)
        secrets1 == WriteSecret(db.secrets, secret_name,
                                Config(provider_config, provider_name))
        secrets2 == IF "delete_secret" \in f THEN secrets1
                    ELSE DeleteSecret(secrets1, secret_name)
    IN Result([db EXCEPT !.secrets = secrets2], "ok", provider_unique_id,
              v.scopes, <<"write_secret", "delete_secret">>,
              IF "delete_secret" \in f THEN {"delete_secret"} ELSE {})

\* ProvisionedLocked that never locks
ProvisionedNeverLocked(provider, allow_provisioned) == FALSE

\* "provider.provisioned and not allow_provisioned": the provider may not
\* be updated or deleted by this call
ProvisionedLocked(provider, allow_provisioned) ==
    provider.provisioned /\ ~allow_provisioned

\* provider_info.pop("pulling_enabled", True) and the cast of a string
PullingArgs == {"absent", "True", "False", "'true'", "'TRUE'", "'no'"}

CastPulling(arg) ==
    CASE arg = "absent"  -> TRUE
      [] arg = "True"    -> TRUE
      [] arg = "False"   -> FALSE
      [] arg = "'true'"  -> TRUE
      [] arg = "'TRUE'"  -> TRUE
      [] OTHER           -> FALSE

\* ProvidersService.update_provider
update_provider(db, tenant_id, provider_id, provider_info, pulling_arg, updated_by, allow_provisioned, f) ==
    IF ~FindProvider(db, tenant_id, provider_id)
    THEN Result(db, "404", provider_id, NoScopes, << >>, {})
    ELSE
    LET provider == db.providers[provider_id] IN
    IF ProvisionedLocked(provider, allow_provisioned)
    THEN Result(db, "403", provider_id, NoScopes, << >>, {})
    ELSE IF FactoryRaises(provider_info)
    THEN Result(db, "400", provider_id, NoScopes, << >>, {})
    ELSE IF PluginScopesRaise(provider_info)
    THEN Result(db, "Exception", provider_id, NoScopes, << >>, {})
    ELSE
    LET validated_scopes == PluginScopes(provider_info)
        secrets1 == WriteSecret(db.secrets, provider.configuration_key,
                                Config(provider_info, provider.name))
        row == [provider EXCEPT !.installed_by = updated_by,
                                !.validatedScopes = validated_scopes,
                                !.pulling_enabled = CastPulling(pulling_arg)]
    IN Result([db EXCEPT !.secrets = secrets1,
                         !.providers = [@ EXCEPT ![provider_id] = row]],
              "ok", provider_id, validated_scopes,
              <<"write_secret", "commit">>, {})

\* get_all_deduplication_rules_by_provider(tenant_id, provider_id, type):
\* a rule is <<provider id, rule name>>
RulesOf(db, provider_id) == {r \in db.rules : r[1] = provider_id}

\* ReadSecretFails with the failure caught and ignored
ReadSecretNeverFails(db, key, f) == FALSE

\* secret_manager.read_secret raises: the backend fails or has no such secret
ReadSecretFails(db, key, f) == "read_secret" \in f \/ key \notin DOMAIN db.secrets

\* ProvidersService.delete_provider
delete_provider(db, tenant_id, provider_id, allow_provisioned, f) ==
    IF ~FindProvider(db, tenant_id, provider_id)
    THEN Result(db, "404", provider_id, NoScopes, << >>, {})
    ELSE
    LET provider_model == db.providers[provider_id] IN
    IF ProvisionedLocked(provider_model, allow_provisioned)
    THEN Result(db, "403", provider_id, NoScopes, << >>, {})
    ELSE
    LET \* the rules are deleted unless that step raises
        db1 == IF "dedup" \in f THEN db
               ELSE [db EXCEPT !.rules = @ \ RulesOf(db, provider_id)]
        key == provider_model.configuration_key
    IN
    IF ReadSecretFails(db1, key, f)
    THEN Result(db1, "SecretError", provider_id, NoScopes,
                <<"dedup_rules", "read_secret">>,
                IF "dedup" \in f THEN {"dedup"} ELSE {})
    ELSE
    LET db2 == IF "delete_secret" \in f THEN db1
               ELSE [db1 EXCEPT !.secrets = DeleteSecret(@, key)]
        db3 == IF provider_model.consumer /\ "remove_consumer" \notin f
               THEN [db2 EXCEPT !.consumers = @ \ {provider_id}]
               ELSE db2
        db4 == [db3 EXCEPT !.providers =
                   [i \in DOMAIN db3.providers \ {provider_id} |-> db3.providers[i]]]
        swallowed == {k \in {"dedup", "delete_secret", "clean_up"} : k \in f}
                     \cup (IF provider_model.consumer /\ "remove_consumer" \in f
                           THEN {"remove_consumer"} ELSE {})
    IN Result(db4, "ok", provider_id, NoScopes,
              <<"dedup_rules", "read_secret", "delete_secret">>
                  \o (IF provider_model.consumer THEN <<"remove_consumer">> ELSE << >>)
                  \o <<"clean_up", "delete_row">>,
              swallowed)

\* ProvidersService.validate_provider_scopes
validate_provider_scopes(db, tenant_id, provider_id, f) ==
    IF ~FindProvider(db, tenant_id, provider_id)
    THEN Result(db, "404", provider_id, NoScopes, << >>, {})
    ELSE
    LET provider == db.providers[provider_id]
        key == provider.configuration_key
    IN
    IF ReadSecretFails(db, key, f)
    THEN Result(db, "SecretError", provider_id, NoScopes, <<"read_secret">>, {})
    ELSE
    LET provider_config == db.secrets[key].authentication IN
    IF FactoryRaises(provider_config) \/ PluginScopesRaise(provider_config)
    THEN Result(db, "Exception", provider_id, NoScopes, <<"read_secret">>, {})
    ELSE
    LET validated_scopes == PluginScopes(provider_config) IN
    IF validated_scopes # provider.validatedScopes
    THEN Result([db EXCEPT !.providers[provider_id].validatedScopes = validated_scopes],
                "ok", provider_id, validated_scopes, <<"read_secret", "commit">>, {})
    ELSE Result(db, "ok", provider_id, validated_scopes, <<"read_secret">>, {})

\* "except Exception as e: raise HTTPException(status_code=400, ...)" of
\* upsert_provider
UpsertHandler(r) == IF r.status = "ok" THEN r ELSE [r EXCEPT !.status = "400"]

\* ProvidersService.upsert_provider; every exception becomes HTTP 400
upsert_provider(db, tenant_id, provider_name, provider_type, provider_config, provisioned, validate, provisioned_providers_names, provider_unique_id, f) ==
    UpsertHandler(
        IF provider_name \in provisioned_providers_names
        THEN LET found == ProvidersByName(db, tenant_id, provider_name) IN
             IF found = {}
             THEN Result(db, "AttributeError", provider_unique_id, NoScopes, << >>, {})
             ELSE [update_provider(db, tenant_id, CHOOSE i \in found : TRUE,
                                   provider_config, "absent", "system", TRUE, f)
                      EXCEPT !.log = <<"update_provider">> \o @]
        ELSE [install_provider(db, tenant_id, "system", provider_name,
                               provider_type, provider_config, provisioned,
                               validate, TRUE, provider_unique_id, f)
                 EXCEPT !.log = <<"install_provider">> \o @])

(***************************************************************************)
(* Provisioning                                                            *)
(***************************************************************************)
\* one record of a nested service call made by provision_providers
Call(fn, name, id, allow_provisioned, status) ==
    [fn |-> fn, name |-> name, id |-> id,
     allow_provisioned |-> allow_provisioned, status |-> status]

\* an entry of the provisioning source: a key of the KEEP_PROVIDERS dict or
\* a file of KEEP_PROVIDERS_DIRECTORY. kind: "provider" (a readable yaml
\* document), "notyaml" (a file without .yaml/.yml suffix), "broken" (a yaml
\* file that fails to load). name/type "" = missing key. dedup "None" = no
\* deduplication_rules key, "boom" = a rule whose provisioning raises.
Entry(kind, name, type, cfg, dedup) ==
    [cfg |-> cfg, name |-> name, type |-> type, kind |-> kind, dedup |-> dedup]

\* provision_deduplication_rules raises on this rule set
DedupProvisioningRaises(dedup) == dedup = "boom"

\* ProvidersService.provision_provider_deduplication_rules:
\* [db, raised]
provision_provider_deduplication_rules(db, provider_id, dedup) ==
    IF DedupProvisioningRaises(dedup)
    THEN [db |-> db, raised |-> TRUE]
    ELSE [db |-> [db EXCEPT !.rules = @ \cup {<<provider_id, dedup>>}],
          raised |-> FALSE]

\* the loop state of provision_providers: the stores, the incoming names,
\* the nested calls so far, the exceptions caught, and whether an exception
\* reached the outer handler
LoopState(db, incoming, calls, errs, aborted) ==
    [db |-> db, incoming |-> incoming, calls |-> calls, errs |-> errs,
     aborted |-> aborted]

MinOf(S) == CHOOSE x \in S : \A y \in S : x <= y

\* the next uuid4: the least unused id (0 when the bound is exhausted)
NewId(db) == IF FreeIds(db) = {} THEN 0 ELSE MinOf(FreeIds(db))

\* the faults that hit calls on provider id
FaultsOn(ff, id) == IF id \in DOMAIN ff THEN ff[id] ELSE {}

\* the deduplication rules of one loop iteration, after its upsert u
\* returned; d is the outcome of provision_provider_deduplication_rules
ProvisionDedupDone(st, u, d) ==
    [st EXCEPT !.db = d.db,
               !.errs = @ \cup u.errs
                          \cup (IF d.raised THEN {"dedup_provisioning"} ELSE {}),
               !.aborted = d.raised]

\* the rest of one loop iteration, after its upsert returned u
ProvisionUpserted(st, e, u) ==
    LET st1 == [st EXCEPT !.calls =
                   Append(@, Call("upsert_provider", e.name, u.id, TRUE, u.status))]
    IN
    IF u.status # "ok"
    THEN [st1 EXCEPT !.db = u.db, !.errs = @ \cup {"upsert"}]
    ELSE IF e.dedup = "None"
    THEN [st1 EXCEPT !.db = u.db, !.errs = @ \cup u.errs]
    ELSE ProvisionDedupDone(st1, u,
             provision_provider_deduplication_rules(u.db, u.id, e.dedup))

\* the upsert and deduplication-rule part of one loop iteration
ProvisionUpsert(st, e, tenant_id, provisioned_providers_names, ff) ==
    ProvisionUpserted(st, e,
        upsert_provider(st.db, tenant_id, e.name, e.type, e.cfg, TRUE, FALSE,
                        provisioned_providers_names, NewId(st.db),
                        FaultsOn(ff, NewId(st.db))))

\* the name joins the incoming names if the latest upsert succeeded
AddIfUpserted(r, name) ==
    IF r.calls[Len(r.calls)].status = "ok"
    THEN [r EXCEPT !.incoming = @ \cup {name}]
    ELSE r

\* ProvisionEnvEntry with the name recorded only once the upsert succeeded
ProvisionEnvEntryAddLate(st, e, tenant_id, provisioned_providers_names, ff) ==
    IF e.type = ""
    THEN [st EXCEPT !.errs = @ \cup {"no_type"}]
    ELSE AddIfUpserted(ProvisionUpsert(st, e, tenant_id, provisioned_providers_names, ff),
                       e.name)

\* one iteration of "for provider_name, provider_info in env_providers.items()"
ProvisionEnvEntry(st, e, tenant_id, provisioned_providers_names, ff) ==
    IF e.type = ""
    THEN [st EXCEPT !.incoming = @ \cup {e.name}, !.errs = @ \cup {"no_type"}]
    ELSE ProvisionUpsert([st EXCEPT !.incoming = @ \cup {e.name}], e, tenant_id,
                         provisioned_providers_names, ff)

\* one iteration of "for file in os.listdir(provisioned_providers_dir)"
ProvisionDirEntry(st, e, tenant_id, provisioned_providers_names, ff) ==
    IF e.kind = "notyaml" THEN st
    ELSE IF e.kind = "broken" THEN [st EXCEPT !.errs = @ \cup {"load"}]
    ELSE IF e.name = "" THEN [st EXCEPT !.errs = @ \cup {"no_name"}]
    ELSE IF e.type = ""
    THEN [st EXCEPT !.incoming = @ \cup {e.name}, !.errs = @ \cup {"no_type"}]
    ELSE ProvisionUpsert([st EXCEPT !.incoming = @ \cup {e.name}], e, tenant_id,
                         provisioned_providers_names, ff)

RECURSIVE ProvisionEntries(_, _, _, _, _, _, _)
\* the loop over the source, from entry k on; an exception that reaches the
\* outer handler ends it
ProvisionEntries(st, entries, k, source, tenant_id, provisioned_providers_names, ff) ==
    IF k > Len(entries) \/ st.aborted THEN st
    ELSE ProvisionEntries(
            IF source = "env"
            THEN ProvisionEnvEntry(st, entries[k], tenant_id,
                                   provisioned_providers_names, ff)
            ELSE ProvisionDirEntry(st, entries[k], tenant_id,
                                   provisioned_providers_names, ff),
            entries, k + 1, source, tenant_id, provisioned_providers_names, ff)

\* NotIncoming with the test inverted
NotIncomingInverted(name, incoming_providers_names) == name \in incoming_providers_names

\* the condition of the deletion loop: "provider.name not in incoming_providers_names"
NotIncoming(name, incoming_providers_names) == name \notin incoming_providers_names

\* one iteration of the deletion loop, after delete_provider returned d
\* or raised: the exception is logged and the loop goes on
ProvisionDeleted(st, name, id, d) ==
    [st EXCEPT !.db = d.db,
               !.calls = Append(@, Call("delete_provider", name, id, TRUE, d.status)),
               !.errs = @ \cup d.errs
                          \cup (IF d.status # "ok" THEN {"delete"} ELSE {})]

RECURSIVE DeleteNotIncoming(_, _, _, _, _)
\* "for provider in provisioned_providers": todo is the rest of the list
\* still to visit, in the order of the list; snapshot the Provider table
\* read at the start
DeleteNotIncoming(st, todo, snapshot, tenant_id, ff) ==
    IF Len(todo) = 0 THEN st
    ELSE
    LET id == Head(todo) IN
    DeleteNotIncoming(
        IF ~NotIncoming(snapshot[id].name, st.incoming)
        THEN st
        ELSE ProvisionDeleted(st, snapshot[id].name, id,
                 delete_provider(st.db, tenant_id, id, TRUE, FaultsOn(ff, id))),
        Tail(todo), snapshot, tenant_id, ff)

\* os.environ.get: "None" = unset. KEEP_PROVIDERS_DIRECTORY: "" (empty),
\* "missing" (no such directory), "dir" (a directory). KEEP_PROVIDERS: ""
\* (empty), "json" (a document)
DirValues == {"None", "", "missing", "dir"}
JsonValues == {"None", "", "json"}

\* os.path.isdir(provisioned_providers_dir)
IsDir(dirv) == dirv = "dir"

\* ProvisionSourceCheck without the os.path.isdir test
ProvisionSourceCheckNoIsDir(dirv, jsonv) ==
    IF dirv # "None" /\ jsonv # "None" THEN "Exception" ELSE "ok"

\* the two checks that open provision_providers: "ok" or the exception
ProvisionSourceCheck(dirv, jsonv) ==
    IF dirv # "None" /\ jsonv # "None" THEN "Exception"
    ELSE IF dirv # "None" /\ ~IsDir(dirv) THEN "FileNotFoundError"
    ELSE "ok"

\* NothingToDo returning whether or not provisioned providers exist
NothingToDoAlways(nothing, provisioned_providers) == nothing

\* "No providers for provisioning found. Nothing to do.": the early return
NothingToDo(nothing, provisioned_providers) ==
    nothing /\ Len(provisioned_providers) = 0

\* "if provisioned_providers_json is not None": the loop over KEEP_PROVIDERS
ProvisionFromEnv(st, jsonv, entries, tenant_id, provisioned_providers_names, ff) ==
    IF jsonv # "None"
    THEN ProvisionEntries(st, entries, 1, "env", tenant_id,
                          provisioned_providers_names, ff)
    ELSE st

\* "if provisioned_providers_dir is not None": the loop over the directory,
\* unless an exception already reached the outer handler
ProvisionFromDir(st, dirv, entries, tenant_id, provisioned_providers_names, ff) ==
    IF dirv # "None" /\ ~st.aborted
    THEN ProvisionEntries(st, entries, 1, "dir", tenant_id,
                          provisioned_providers_names, ff)
    ELSE st

\* the deletion loop, unless an exception already reached the outer handler
ProvisionDeletions(st, provisioned_providers, snapshot, tenant_id, ff) ==
    IF st.aborted THEN st
    ELSE DeleteNotIncoming(st, provisioned_providers, snapshot, tenant_id, ff)

\* ProvidersService.provision_providers: [status, st];
\* provisioned_providers is the list get_all_provisioned_providers returns
provision_providers(db, tenant_id, dirv, jsonv, entries, ff, provisioned_providers) ==
    LET st0 == LoopState(db, {}, << >>, {}, FALSE)
        check == ProvisionSourceCheck(dirv, jsonv)
    IN
    IF check # "ok" THEN [status |-> check, st |-> st0]
    ELSE
    LET provisioned_providers_names ==
            {db.providers[provisioned_providers[k]].name :
                k \in DOMAIN provisioned_providers}
        \* "not (provisioned_providers_dir or provisioned_providers_json)"
        nothing == dirv \in {"None", ""} /\ jsonv \in {"None", ""}
    IN
    IF NothingToDo(nothing, provisioned_providers)
    THEN [status |-> "ok", st |-> st0]
    ELSE
    [status |-> "ok",
     st |-> ProvisionDeletions(
                ProvisionFromDir(
                    ProvisionFromEnv(st0, jsonv, entries, tenant_id,
                                     provisioned_providers_names, ff),
                    dirv, entries, tenant_id, provisioned_providers_names, ff),
                provisioned_providers, db.providers, tenant_id, ff)]

(***************************************************************************)
(* State machine                                                           *)
(***************************************************************************)
\* the record of the latest call: its name, arguments and outcome
NoCall ==
    [op |-> "none", tenant_id |-> "", id |-> 0, status |-> "", log |-> << >>,
     errs |-> {}, scopes |-> NoScopes, name |-> "", type |-> "", cfg |-> "",
     provisioned |-> FALSE, pulling_enabled |-> FALSE, validate |-> FALSE,
     allow_provisioned |-> FALSE, names |-> {}, incoming |-> {},
     calls |-> << >>, aborted |-> FALSE, dirv |-> "None", jsonv |-> "None",
     entries |-> << >>, faults |-> {}, hooks |-> << >>]

\* the outcome of a service call r, recorded
Outcome(op, tenant_id, r) ==
    [NoCall EXCEPT !.op = op, !.tenant_id = tenant_id, !.id = r.id,
                   !.status = r.status, !.log = r.log, !.errs = r.errs,
                   !.scopes = r.scopes]

SetDb(db) ==
    /\ providers' = db.providers
    /\ secrets' = db.secrets
    /\ consumers' = db.consumers
    /\ rules' = db.rules
    /\ UNCHANGED assistantVars

\* the record of the latest response of the AI assistant: the call, its
\* arguments and its outcome
NoResponse ==
    [op |-> "none", tenant_id |-> "", user_email |-> "", conversation_id |-> 0,
     message |-> "", stream |-> FALSE, status |-> "", reported |-> 0,
     body |-> "", events |-> << >>, yields |-> << >>, history |-> << >>,
     called |-> FALSE, reply |-> "", chunks |-> << >>, raises |-> FALSE,
     kind |-> "", persisted |-> FALSE, messages |-> << >>, title |-> << >>,
     event |-> "", data |-> [type |-> "", value |-> "", items |-> << >>],
     result |-> "", formatted |-> << >>, context |-> << >>, stored |-> << >>]

Init ==
    /\ providers = [i \in {} |-> NoCall]
    /\ secrets = [k \in {} |-> NoCall]
    /\ consumers = {}
    /\ rules = {}
    /\ last = NoCall
    /\ client = TRUE
    /\ conversations = [i \in {} |-> NoCall]
    /\ requests = [i \in {} |-> NoCall]
    /\ response = NoResponse

Install(tenant_id, installed_by, name, type, cfg, provisioned, validate, pulling_enabled, f) ==
    /\ last.op = "none"
    /\ FreeIds(CurDb) # {}
    /\ LET r == install_provider(CurDb, tenant_id, installed_by, name, type, cfg,
                                 provisioned, validate, pulling_enabled,
                                 NewId(CurDb), f)
       IN /\ SetDb(r.db)
          /\ last' = [Outcome("install_provider", tenant_id, r) EXCEPT
                         !.name = name, !.type = type, !.cfg = cfg,
                         !.provisioned = provisioned, !.validate = validate,
                         !.pulling_enabled = pulling_enabled, !.faults = f]

PrepareProvider(provider_id, name, type, cfg, validate, f) ==
    /\ last.op = "none"
    /\ FreeIds(CurDb) # {}
    /\ LET r == prepare_provider(CurDb, provider_id, name, type, cfg, validate,
                                 NewId(CurDb), f)
       IN /\ SetDb(r.db)
          /\ last' = [Outcome("prepare_provider", "None", r) EXCEPT
                         !.name = name, !.type = type, !.cfg = cfg,
                         !.validate = validate, !.faults = f]

Update(tenant_id, provider_id, cfg, pulling_arg, updated_by, allow_provisioned) ==
    /\ last.op = "none"
    /\ LET r == update_provider(CurDb, tenant_id, provider_id, cfg, pulling_arg,
                                updated_by, allow_provisioned, {})
       IN /\ SetDb(r.db)
          /\ last' = [Outcome("update_provider", tenant_id, r) EXCEPT
                         !.cfg = cfg, !.allow_provisioned = allow_provisioned,
                         !.pulling_enabled = CastPulling(pulling_arg)]

Upsert(tenant_id, name, type, cfg, provisioned, validate, names, f) ==
    /\ last.op = "none"
    /\ FreeIds(CurDb) # {}
    /\ LET r == upsert_provider(CurDb, tenant_id, name, type, cfg, provisioned,
                                validate, names, NewId(CurDb), f)
       IN /\ SetDb(r.db)
          /\ last' = [Outcome("upsert_provider", tenant_id, r) EXCEPT
                         !.name = name, !.type = type, !.cfg = cfg,
                         !.provisioned = provisioned, !.validate = validate,
                         !.names = names, !.faults = f]

Delete(tenant_id, provider_id, allow_provisioned, f) ==
    /\ last.op = "none"
    /\ LET r == delete_provider(CurDb, tenant_id, provider_id, allow_provisioned, f)
       IN /\ SetDb(r.db)
          /\ last' = [Outcome("delete_provider", tenant_id, r) EXCEPT
                         !.allow_provisioned = allow_provisioned, !.faults = f]

ValidateProviderScopes(tenant_id, provider_id, f) ==
    /\ last.op = "none"
    /\ LET r == validate_provider_scopes(CurDb, tenant_id, provider_id, f)
       IN /\ SetDb(r.db)
          /\ last' = [Outcome("validate_provider_scopes", tenant_id, r) EXCEPT
                         !.faults = f]

\* the entries whose upsert takes a fresh id
InstallCount(db, tenant_id, entries) ==
    Cardinality({k \in DOMAIN entries :
        /\ entries[k].kind = "provider"
        /\ entries[k].name # ""
        /\ entries[k].type # ""
        /\ \A i \in ProvisionedIds(db, tenant_id) :
              db.providers[i].name # entries[k].name})

\* provision_providers returned r: the stores and the record of the call
Provisioned(tenant_id, dirv, jsonv, entries, r) ==
    /\ SetDb(r.st.db)
    /\ last' = [NoCall EXCEPT
                   !.op = "provision_providers", !.tenant_id = tenant_id,
                   !.status = r.status, !.errs = r.st.errs,
                   !.incoming = r.st.incoming, !.calls = r.st.calls,
                   !.aborted = r.st.aborted, !.dirv = dirv, !.jsonv = jsonv,
                   !.entries = entries]

Provision(tenant_id, dirv, jsonv, entries, ff) ==
    /\ last.op = "none"
    /\ InstallCount(CurDb, tenant_id, entries) <= Cardinality(FreeIds(CurDb))
    /\ \E provisioned_providers \in get_all_provisioned_providers(CurDb, tenant_id) :
          Provisioned(tenant_id, dirv, jsonv, entries,
                      provision_providers(CurDb, tenant_id, dirv, jsonv, entries,
                                          ff, provisioned_providers))

\* the caller takes the response; the next call can start
Return ==
    /\ last.op # "none"
    /\ last' = NoCall
    /\ UNCHANGED <<providers, secrets, consumers, rules>>
    /\ UNCHANGED assistantVars

\* sequences over S of length at most n
RECURSIVE SeqsUpTo(_, _)
SeqsUpTo(S, n) ==
    IF n = 0 THEN {<< >>}
    ELSE LET shorter == SeqsUpTo(S, n - 1) IN
         shorter \cup {Append(q, x) : q \in {p \in shorter : Len(p) = n - 1}, x \in S}

\* dict keys are distinct
DistinctNames(entries) ==
    \A j, k \in DOMAIN entries : j # k => entries[j].name # entries[k].name

NoFaults == [i \in Ids |-> {}]

\* one fault kind hitting the calls on one provider
OneFault(id, kind) == [i \in Ids |-> IF i = id THEN {kind} ELSE {}]

AllFault(kind) == [i \in Ids |-> {kind}]

(***************************************************************************)
(* SpecProvision: provisioning runs of tenant t1 from the env var or the    *)
(* directory, next to providers installed by hand                           *)
(***************************************************************************)
\* what the source can say about one provider name
ProviderEntries(n) ==
    {Entry("provider", n, "kafka", "good", "None"),
     Entry("provider", n, "", "good", "None"),
     Entry("provider", n, "kafka", "invalid", "None")}

\* KEEP_PROVIDERS documents: a dict, so at most one entry per name
EnvSources ==
    {es \in SeqsUpTo(UNION {ProviderEntries(n) : n \in Names}
                        \cup {Entry("provider", "a", "kafka", "good", "r1"),
                              Entry("provider", "a", "kafka", "good", "boom")},
                     MaxEntries) : DistinctNames(es)}

\* KEEP_PROVIDERS_DIRECTORY listings; two files may carry the same name
DirSources ==
    SeqsUpTo({Entry("provider", "a", "kafka", "good", "None"),
              Entry("provider", "a", "", "good", "None"),
              Entry("provider", "b", "kafka", "good", "r1"),
              Entry("notyaml", "a", "kafka", "good", "None"),
              Entry("broken", "a", "kafka", "good", "None"),
              Entry("provider", "", "kafka", "good", "None")},
             MaxEntries)

ShortSources == {es \in EnvSources : Len(es) <= 1}

ProvisionFaults ==
    {AllFault("delete_secret"), AllFault("dedup"), AllFault("commit_fk")}
        \cup {OneFault(i, "read_secret") : i \in Ids}

NextProvision ==
    \/ \E es \in EnvSources : Provision("t1", "None", "json", es, NoFaults)
    \/ \E es \in DirSources : Provision("t1", "dir", "None", es, NoFaults)
    \/ \E es \in ShortSources, ff \in ProvisionFaults :
          Provision("t1", "None", "json", es, ff)
    \/ \E dirv \in DirValues, jsonv \in {"None", ""},
          ff \in ProvisionFaults \cup {NoFaults} :
          /\ ~(dirv = "dir" /\ jsonv = "None")
          /\ Provision("t1", dirv, jsonv, << >>, ff)
    \/ \E dirv \in DirValues \ {"None"}, es \in ShortSources :
          Provision("t1", dirv, "json", es, NoFaults)
    \/ \E t \in Tenants, n \in Names, prov \in BOOLEAN :
          /\ t = "t1" => ~prov
          /\ t = "t2" => n = "a"
          /\ Install(t, "user", n, "kafka", "good", prov, TRUE, TRUE, {})
    \/ Return

SpecProvision == Init /\ [][NextProvision]_vars

\* C1: after a provision_providers run that passed the source checks and in
\* which no exception reached the outer handler and no delete_provider call
\* or secret deletion failed, every provider of the tenant that was
\* provisioned before the run and whose name is not among the incoming names
\* has lost its row and its secret, through a delete_provider call with
\* allow_provisioned = TRUE.
C1_NoStepFails(l) ==
    /\ l.op = "provision_providers"
    /\ l.status = "ok"
    /\ ~l.aborted
    /\ l.errs \cap {"delete", "delete_secret"} = {}

C1_StaleProvisionedDeleted ==
    [][C1_NoStepFails(last') =>
        \A i \in ProvisionedIds(CurDb, last'.tenant_id) :
            providers[i].name \notin last'.incoming =>
                /\ i \notin DOMAIN providers'
                /\ providers[i].configuration_key \notin DOMAIN secrets'
                /\ \E k \in DOMAIN last'.calls :
                      last'.calls[k] =
                          Call("delete_provider", providers[i].name, i, TRUE, "ok")]_vars

C1_Witness ==
    /\ C1_NoStepFails(last)
    /\ last.incoming # {}
    /\ \E k \in DOMAIN last.calls :
          /\ last.calls[k].fn = "delete_provider"
          /\ last.calls[k].status = "ok"
          /\ last.calls[k].name \notin last.incoming
          /\ last.calls[k].id \notin DOMAIN providers

\* the names the provisioning source carries: the keys of the env var dict,
\* or the name keys of the yaml files that load
SourceNames(l) ==
    {l.entries[k].name : k \in {j \in DOMAIN l.entries :
        l.entries[j].kind = "provider" /\ l.entries[j].name # ""}}

\* C2: a provision_providers run never deletes a provisioned provider of
\* the tenant whose name appears in the incoming source, whatever happens to
\* its upsert: its row and its secret are still there after the run.
C2_IncomingNeverDeleted ==
    [][last'.op = "provision_providers" =>
        \A i \in ProvisionedIds(CurDb, last'.tenant_id) :
            providers[i].name \in SourceNames(last') =>
                /\ i \in DOMAIN providers'
                /\ providers'[i].name = providers[i].name
                /\ providers[i].configuration_key \in DOMAIN secrets'
                /\ \A k \in DOMAIN last'.calls :
                      ~(last'.calls[k].fn = "delete_provider" /\ last'.calls[k].id = i)]_vars

\* a run in which the upsert of a provisioned provider failed while another
\* provisioned provider was deleted, or in which the entry had no type
C2_Witness ==
    /\ last.op = "provision_providers"
    /\ last.status = "ok"
    /\ \E k \in DOMAIN last.calls :
          /\ last.calls[k].fn = "upsert_provider"
          /\ last.calls[k].status = "400"
          /\ \E i \in ProvisionedIds(CurDb, last.tenant_id) :
                providers[i].name = last.calls[k].name
    /\ \E k \in DOMAIN last.calls :
          last.calls[k].fn = "delete_provider" /\ last.calls[k].status = "ok"

DbUnchanged == UNCHANGED <<providers, secrets, consumers, rules>>

\* C9: provision_providers rejects an invalid provisioning configuration
\* before touching any state: with both KEEP_PROVIDERS_DIRECTORY and
\* KEEP_PROVIDERS set it raises Exception; with only the directory set and
\* no such directory it raises FileNotFoundError; either way no nested call
\* is made and the stores are unchanged.
C9_InvalidSourceRejected ==
    [][last'.op = "provision_providers" =>
        /\ (last'.dirv # "None" /\ last'.jsonv # "None")
              => last'.status = "Exception"
        /\ (last'.dirv # "None" /\ last'.jsonv = "None" /\ ~IsDir(last'.dirv))
              => last'.status = "FileNotFoundError"
        /\ (last'.dirv # "None" /\ (last'.jsonv # "None" \/ ~IsDir(last'.dirv)))
              => /\ last'.status # "ok"
                 /\ last'.calls = << >>
                 /\ DbUnchanged]_vars

\* a rejected run on a tenant that has a provisioned provider and a source
\* that names a new one
C9_Witness ==
    /\ last.op = "provision_providers"
    /\ last.status = "Exception"
    /\ last.entries # << >>
    /\ ProvisionedIds(CurDb, last.tenant_id) # {}

\* C10 as stated: with neither variable set, provision_providers does
\* nothing if the tenant has no provisioned providers, and otherwise deletes
\* all of the tenant's provisioned providers and installs or updates none.
C10_Neither(l) ==
    l.op = "provision_providers" /\ l.dirv = "None" /\ l.jsonv = "None"

NoUpsertCalls(l) ==
    \A k \in DOMAIN l.calls : l.calls[k].fn = "delete_provider"

C10_DeletesAllProvisioned ==
    [][C10_Neither(last') =>
        IF ProvisionedIds(CurDb, last'.tenant_id) = {}
        THEN DbUnchanged /\ last'.calls = << >>
        ELSE /\ \A i \in ProvisionedIds(CurDb, last'.tenant_id) :
                   i \notin DOMAIN providers'
             /\ NoUpsertCalls(last')]_vars

\* C10 amended: with neither variable set, provision_providers does nothing
\* if the tenant has no provisioned providers; otherwise it calls
\* delete_provider with allow_provisioned = TRUE once on each of the tenant's
\* provisioned providers, removes the row of each one whose delete_provider
\* call does not fail, leaves every other row as it was, and installs or
\* updates none.
C10_AttemptsDeleteAllProvisioned ==
    [][C10_Neither(last') =>
        IF ProvisionedIds(CurDb, last'.tenant_id) = {}
        THEN DbUnchanged /\ last'.calls = << >>
        ELSE /\ \A i \in ProvisionedIds(CurDb, last'.tenant_id) :
                   \E k \in DOMAIN last'.calls :
                      /\ last'.calls[k].fn = "delete_provider"
                      /\ last'.calls[k].id = i
                      /\ last'.calls[k].allow_provisioned
                      /\ last'.calls[k].status = "ok" <=> i \notin DOMAIN providers'
                      /\ \A j \in DOMAIN last'.calls :
                            last'.calls[j].id = i => j = k
             /\ NoUpsertCalls(last')
             /\ Len(last'.calls) = Cardinality(ProvisionedIds(CurDb, last'.tenant_id))
             /\ \A i \in DOMAIN providers' : providers'[i] = providers[i]]_vars

\* such a run in which one provisioned provider was deleted and the delete
\* of another failed
C10_Witness ==
    /\ C10_Neither(last)
    /\ \E k \in DOMAIN last.calls : last.calls[k].status = "ok"
    /\ \E k \in DOMAIN last.calls : last.calls[k].status # "ok"

(***************************************************************************)
(* SpecService: providers of two tenants installed by hand or provisioned   *)
(* with a deduplication rule, then updated, deleted and re-validated        *)
(***************************************************************************)
\* the provider type each name is installed with
TypeOf(n) == IF n = "a" THEN "kafka" ELSE "grafana"

BestEffortFaults == {"dedup", "delete_secret", "remove_consumer", "clean_up"}

\* no fault, the secret unreadable, one best-effort step failing, or all
DeleteFaultSets ==
    {{}, {"read_secret"}, BestEffortFaults} \cup {{k} : k \in BestEffortFaults}

NextService ==
    \/ \E n \in Names, prov \in BOOLEAN :
          Install("t1", "user", n, TypeOf(n), "good", prov, TRUE, TRUE, {})
    \/ Install("t2", "user", "a", TypeOf("a"), "good", FALSE, TRUE, TRUE, {})
    \/ Provision("t1", "None", "json",
                 <<Entry("provider", "a", TypeOf("a"), "good", "r1")>>, NoFaults)
    \/ \E t \in Tenants, id \in Ids, cfg \in {"empty", "invalid", "raises"},
          allow \in BOOLEAN :
          Update(t, id, cfg, "False", "admin", allow)
    \/ \E t \in Tenants, id \in Ids, allow \in BOOLEAN, f \in DeleteFaultSets :
          Delete(t, id, allow, f)
    \/ \E t \in Tenants, id \in Ids, f \in {{}, {"read_secret"}} :
          ValidateProviderScopes(t, id, f)
    \/ Return

SpecService == Init /\ [][NextService]_vars

\* the call recorded in l addressed a row of its own tenant in the stores db
RowOfTenant(db, l) ==
    l.id \in DOMAIN db.providers /\ db.providers[l.id].tenant_id = l.tenant_id

\* C5: update_provider and delete_provider called with allow_provisioned =
\* FALSE on a provisioned provider fail with HTTP 403 and leave the Provider
\* table, the secrets, the deduplication rules and the consumer registry
\* unchanged.
C5_ProvisionedIsLocked ==
    [][(/\ last'.op \in {"update_provider", "delete_provider"}
        /\ ~last'.allow_provisioned
        /\ RowOfTenant(CurDb, last')
        /\ providers[last'.id].provisioned)
       => last'.status = "403" /\ DbUnchanged]_vars

\* a 403 on a provisioned consumer that has a secret and a deduplication rule
C5_Witness ==
    /\ last.op \in {"update_provider", "delete_provider"}
    /\ last.status = "403"
    /\ RowOfTenant(CurDb, last)
    /\ providers[last.id].provisioned
    /\ providers[last.id].configuration_key \in DOMAIN secrets
    /\ RulesOf(CurDb, last.id) # {}
    /\ last.id \in consumers

\* C6: update_provider, delete_provider and validate_provider_scopes called
\* with a (tenant_id, provider_id) pair that matches no Provider row, also
\* when the id is a provider of another tenant, fail with HTTP 404 and change
\* nothing.
C6_UnknownProviderNotFound ==
    [][(/\ last'.op \in {"update_provider", "delete_provider",
                         "validate_provider_scopes"}
        /\ ~RowOfTenant(CurDb, last'))
       => last'.status = "404" /\ DbUnchanged]_vars

\* a 404 for the id of another tenant's provider
C6_Witness ==
    /\ last.op \in {"update_provider", "delete_provider", "validate_provider_scopes"}
    /\ last.status = "404"
    /\ last.id \in DOMAIN providers
    /\ providers[last.id].tenant_id # last.tenant_id

\* the steps of a delete_provider call on row p that got past the checks
DeleteSteps(p) ==
    <<"dedup_rules", "read_secret", "delete_secret">>
        \o (IF p.consumer THEN <<"remove_consumer">> ELSE << >>)
        \o <<"clean_up", "delete_row">>

\* C8: a delete_provider call that returns normally has removed the row
\* after attempting, in this order, the deletion of the deduplication rules,
\* the deletion of the secret, the unregistration (consumers only) and
\* clean_up; each of those steps takes effect unless it fails, none of their
\* failures keeps the row, and a failure to read the secret aborts the call
\* with the row still there.
C8_DeleteOrderAndBestEffort ==
    [][(/\ last'.op = "delete_provider"
        /\ RowOfTenant(CurDb, last')
        /\ (last'.allow_provisioned \/ ~providers[last'.id].provisioned))
       => LET id == last'.id
              p == providers[id]
              f == last'.faults
          IN IF "read_secret" \in f \/ p.configuration_key \notin DOMAIN secrets
             THEN /\ last'.status # "ok"
                  /\ id \in DOMAIN providers'
                  /\ providers'[id] = p
             ELSE /\ last'.status = "ok"
                  /\ id \notin DOMAIN providers'
                  /\ last'.log = DeleteSteps(p)
                  /\ "dedup" \notin f => \A r \in rules' : r[1] # id
                  /\ "delete_secret" \notin f
                        => p.configuration_key \notin DOMAIN secrets'
                  /\ (p.consumer /\ "remove_consumer" \notin f)
                        => id \notin consumers']_vars

\* a delete that returned normally although every best-effort step failed,
\* on a consumer with a deduplication rule
C8_Witness ==
    /\ last.op = "delete_provider"
    /\ last.status = "ok"
    /\ BestEffortFaults \subseteq last.faults
    /\ last.id \notin DOMAIN providers
    /\ last.id \in consumers
    /\ RulesOf(CurDb, last.id) # {}
    /\ Len(last.log) = 6

\* a delete aborted by an unreadable secret, the row still there
C8_WitnessAbort ==
    /\ last.op = "delete_provider"
    /\ last.status = "SecretError"
    /\ last.id \in DOMAIN providers

(***************************************************************************)
(* SpecScopes: installs of tenant t1 under every plugin reaction to the     *)
(* configuration, with and without scope validation                         *)
(***************************************************************************)
NextScopes ==
    \/ \E n \in Names, ty \in Types, cfg \in Configs, validate \in BOOLEAN :
          /\ ProvidersByName(CurDb, "t1", n) = {}
          /\ Install("t1", "user", n, ty, cfg, FALSE, validate, TRUE, {})
    \/ \E id \in Ids : Delete("t1", id, TRUE, {})
    \/ Return

SpecScopes == Init /\ [][NextScopes]_vars

\* every mandatory scope of the type is in the plugin's answer with value True
AllMandatoryTrue(ty, cfg) ==
    \A k \in DOMAIN PROVIDER_SCOPES(ty) :
        PROVIDER_SCOPES(ty)[k].mandatory =>
            /\ PROVIDER_SCOPES(ty)[k].name \in DOMAIN PluginScopes(cfg)
            /\ PluginScopes(cfg)[PROVIDER_SCOPES(ty)[k].name] = "True"

\* an install_provider call with validate_scopes = TRUE that reached
\* validate_scopes (the factory accepted the configuration)
ValidatingInstall(l) ==
    l.op = "install_provider" /\ l.validate /\ ~FactoryRaises(l.cfg)

\* C4 as stated: validate_scopes returns normally only if every mandatory
\* scope is in the validated scopes with value True; otherwise it fails with
\* HTTP 412 and install_provider writes no secret and no row.
C4_MandatoryScopesRequired ==
    [][ValidatingInstall(last') =>
        IF AllMandatoryTrue(last'.type, last'.cfg) /\ ~PluginScopesRaise(last'.cfg)
        THEN last'.status = "ok"
        ELSE last'.status = "412" /\ DbUnchanged]_vars

\* C4 amended: validate_scopes returns normally only if the plugin's
\* validate_scopes did not raise and either returned an empty result or
\* returned every mandatory scope with value True; otherwise it fails with
\* HTTP 412 and install_provider writes no secret and no row.
C4_MandatoryScopesRequiredUnlessEmpty ==
    [][ValidatingInstall(last') =>
        IF /\ ~PluginScopesRaise(last'.cfg)
           /\ \/ DOMAIN PluginScopes(last'.cfg) = {}
              \/ AllMandatoryTrue(last'.type, last'.cfg)
        THEN /\ last'.status = "ok"
             /\ last'.scopes = PluginScopes(last'.cfg)
        ELSE last'.status = "412" /\ DbUnchanged]_vars

\* a 412 for a mandatory scope whose value is an error message, with a
\* provider already installed and nothing written for the rejected one
C4_Witness ==
    /\ last.op = "install_provider"
    /\ last.validate
    /\ last.status = "412"
    /\ last.cfg = "denied"
    /\ DOMAIN providers # {}
    /\ SecretName(last.tenant_id, last.type, last.id) \notin DOMAIN secrets
    /\ last.id \notin DOMAIN providers

(***************************************************************************)
(* SpecInstall: installs and upserts of two tenants, with names that are    *)
(* already installed and with failing commits and registrations             *)
(***************************************************************************)
NextInstall ==
    \/ \E t \in Tenants, n \in Names, cfg \in {"good", "invalid"},
          prov \in BOOLEAN, pull \in BOOLEAN,
          f \in {{}, {"commit_fk"}, {"add_consumer"}} :
          Install(t, "user", n, TypeOf(n), cfg, prov, TRUE, pull, f)
    \/ \E n \in Names, cfg \in {"good", "invalid"}, prov \in BOOLEAN,
          names \in SUBSET Names :
          Upsert("t1", n, TypeOf(n), cfg, prov, TRUE, names, {})
    \/ \E t \in Tenants, id \in Ids : Delete(t, id, TRUE, {})
    \/ \E n \in Names, cfg \in {"good", "denied", "invalid"}, v \in BOOLEAN,
          f \in {{}, {"delete_secret"}} :
          PrepareProvider("x", n, TypeOf(n), cfg, v, f)
    \/ Return

SpecInstall == Init /\ [][NextInstall]_vars

\* C3 as stated: upsert_provider updates the existing provider when one with
\* that name is installed for the tenant and installs a new one otherwise;
\* it never creates a second provider for an installed name, and on success
\* it returns the info of the provider that is stored.
C3_UpsertUpdatesOrInstalls ==
    [][(last'.op = "upsert_provider" /\ last'.status = "ok") =>
        LET existing == ProvidersByName(CurDb, last'.tenant_id, last'.name)
            after == {i \in DOMAIN providers' :
                        /\ providers'[i].tenant_id = last'.tenant_id
                        /\ providers'[i].name = last'.name}
        IN /\ IF existing # {}
              THEN /\ last'.id \in existing
                   /\ last'.log[1] = "update_provider"
                   /\ DOMAIN providers' = DOMAIN providers
                   /\ DOMAIN secrets' = DOMAIN secrets
              ELSE /\ last'.log[1] = "install_provider"
                   /\ last'.id \notin DOMAIN providers
           /\ Cardinality(after) = 1
           /\ last'.id \in after]_vars

\* C7 as stated: an install_provider call that returns normally has stored
\* the configuration as the secret "<tenant_id>_<provider_type>_<new id>",
\* written before the commit, and has created exactly one Provider row,
\* whose configuration_key is that name and whose provisioned and
\* pulling_enabled flags are the arguments; add_consumer is called exactly
\* when the provider is a consumer, and registers it unless it raises.
C7_InstallStoresSecretAndRow ==
    [][(last'.op = "install_provider" /\ last'.status = "ok") =>
        LET id == last'.id
            key == last'.tenant_id \o "_" \o last'.type \o "_" \o ToString(id)
        IN /\ key \in DOMAIN secrets'
           /\ secrets'[key] = Config(last'.cfg, last'.name)
           /\ DOMAIN providers' = DOMAIN providers \cup {id}
           /\ id \notin DOMAIN providers
           /\ id \in DOMAIN providers'
           /\ providers'[id].configuration_key = key
           /\ providers'[id].provisioned = last'.provisioned
           /\ providers'[id].pulling_enabled = last'.pulling_enabled
           /\ last'.log[1] = "write_secret" /\ last'.log[2] = "commit"
           /\ ("add_consumer" \in {last'.log[k] : k \in DOMAIN last'.log})
                 <=> IsConsumer(last'.type)
           /\ "add_consumer" \notin last'.faults
                 => (id \in consumers' <=> IsConsumer(last'.type))]_vars

(***************************************************************************)
(* AI assistant: bounds and input domains                                  *)
(***************************************************************************)
\* number of conversation ids (uuid4 values) that may be in use at once
MaxConversations == 2
\* number of messages of the input of format_conversation_for_storage
MaxMessages == 2

ConversationIds == 1..MaxConversations
Users == {"alice", "bob"}

(***************************************************************************)
(* keep/api/ai_assistant/utils.py                                          *)
(***************************************************************************)
\* base_prompt of create_system_prompt
BasePrompt ==
    "\n    You are an AI assistant for Keep, an alert management platform.\n    You help users manage, understand, and resolve alerts and incidents.\n\n    Keep allows users to:\n    1. Monitor and manage alerts from various sources\n    2. Create and track incidents\n    3. Set up workflows for alert handling\n    4. Analyze patterns and root causes of incidents\n\n    Be concise, helpful, and accurate. If you don't know something, say so rather than making up information.\n    "

\* a context dict is a function of its keys: "user" (a str), "incident" (a
\* dict of "name", "id", "summary") and "alerts" (a list); None and {} are
\* the function of no key
NoContext == [k \in {} |-> ""]

\* d.get(k, default)
DictGet(d, k, default) == IF k \in DOMAIN d THEN d[k] ELSE default

\* "if 'user' in context"
UserLine(context) ==
    IF "user" \in DOMAIN context
    THEN "- User: " \o context.user \o "\n"
    ELSE ""

\* "if 'summary' in incident"
SummaryLine(incident) ==
    IF "summary" \in DOMAIN incident
    THEN "  Summary: " \o incident.summary \o "\n"
    ELSE ""

\* "if 'incident' in context"
IncidentLines(context) ==
    IF "incident" \in DOMAIN context
    THEN "- Current incident: " \o DictGet(context.incident, "name", "N/A")
            \o " (ID: " \o DictGet(context.incident, "id", "N/A") \o ")\n"
            \o SummaryLine(context.incident)
    ELSE ""

\* "if 'alerts' in context"
AlertsLine(context) ==
    IF "alerts" \in DOMAIN context
    THEN "- Related alerts: " \o ToString(Len(context.alerts)) \o " alerts\n"
    ELSE ""

\* create_system_prompt(context)
create_system_prompt(context) ==
    IF DOMAIN context = {} THEN BasePrompt
    ELSE BasePrompt \o "\n\nCurrent context:\n" \o UserLine(context)
            \o IncidentLines(context) \o AlertsLine(context)

Message(role, content) == [role |-> role, content |-> content]

\* the slice s[:n]
Slice(s, n) == IF Len(s) <= n THEN s ELSE SubSeq(s, 1, n)

\* the 50 of 'msg["content"][:50] + ("..." if len(msg["content"]) > 50 else "")'
TitleLength == 50

\* the title loop of format_conversation_for_storage: << >> is None, <<t>>
\* the title t taken from the first message with role "user"
RECURSIVE TitleFrom(_, _)
TitleFrom(messages, k) ==
    IF k > Len(messages) THEN << >>
    ELSE IF messages[k].role = "user"
    THEN <<Slice(messages[k].content, TitleLength)
             \o (IF Len(messages[k].content) > TitleLength THEN "..." ELSE "")>>
    ELSE TitleFrom(messages, k + 1)

\* RoleOf that keeps the role of the input
RoleKept(role) == role

\* the MessageRole that format_conversation_for_storage gives a message
RoleOf(role) ==
    IF role = "user" THEN "user"
    ELSE IF role = "assistant" THEN "assistant"
    ELSE "system"

\* format_conversation_for_storage(messages, context=None): a
\* ConversationCreateDto object; an Optional field is << >> for None and
\* <<v>> for the value v
format_conversation_for_storage(messages, context) ==
    [type |-> "ConversationCreateDto",
     title |-> TitleFrom(messages, 1),
     context |-> context,
     metadata |-> << >>,
     messages |-> [k \in DOMAIN messages |->
                      Message(RoleOf(messages[k].role), messages[k].content)]]

\* an argument of prepare_sse_message: a str or a dict; the items of a dict
\* are [k, v, t] with t the Python type of the value v
StrData(text) == [type |-> "str", value |-> text, items |-> << >>]
DictData(items) == [type |-> "dict", value |-> "", items |-> items]
Item(k, v, t) == [k |-> k, v |-> v, t |-> t]

\* the characters with the code points 1 to 95 and 97 to 127, each at the
\* place of its code point (a TLA+ string holds neither the character 0
\* nor the grave accent, 96)
LowChars == "\t\n\f\r !\"#$%&'()*+,-./0123456789:;<=>?@ABCDEFGHIJKLMNOPQRSTUVWXYZ[\\]^_"
HighChars == "abcdefghijklmnopqrstuvwxyz{|}~"

\* characters beyond ASCII with their code points
WideChars == <<[c |-> "é", n |-> 233], [c |-> "€", n |-> 8364]>>

\* chr(n)
Chr(n) ==
    IF n <= Len(LowChars) THEN SubSeq(LowChars, n, n)
    ELSE SubSeq(HighChars, n - Len(LowChars) - 1, n - Len(LowChars) - 1)

\* ord(c), of the characters above
Ord(c) ==
    CASE \E k \in 1..Len(LowChars) : SubSeq(LowChars, k, k) = c ->
            CHOOSE k \in 1..Len(LowChars) : SubSeq(LowChars, k, k) = c
      [] \E k \in 1..Len(HighChars) : SubSeq(HighChars, k, k) = c ->
            Len(LowChars) + 1
                + (CHOOSE k \in 1..Len(HighChars) : SubSeq(HighChars, k, k) = c)
      [] \E k \in DOMAIN WideChars : WideChars[k].c = c ->
            WideChars[CHOOSE k \in DOMAIN WideChars : WideChars[k].c = c].n

\* one digit of '{0:04x}'
HexDigit(d) == SubSeq("0123456789abcdef", d + 1, d + 1)

\* '\\u{0:04x}'.format(n) of json.dumps, n below 65536
UnicodeEscape(n) ==
    "\\u" \o HexDigit(n \div 4096) \o HexDigit((n \div 256) % 16)
           \o HexDigit((n \div 16) % 16) \o HexDigit(n % 16)

\* the code points json.dumps copies: ' ' to '~' (the quote and the
\* backslash are escaped before)
Printable(n) == 32 <= n /\ n <= 126

\* the other characters of a str: copied or written \uXXXX
JsonEscapeOrd(c, n) == IF Printable(n) THEN c ELSE UnicodeEscape(n)

\* json.dumps of one character of a str (ensure_ascii): the quote, the
\* backslash and the control characters \b \f \n \r \t have a short
\* escape, every other character outside ' ' to '~' is written \uXXXX
JsonEscapeChar(c) ==
    CASE c = "\"" -> "\\\""
      [] c = "\\" -> "\\\\"
      [] c = "\n" -> "\\n"
      [] c = "\r" -> "\\r"
      [] c = "\t" -> "\\t"
      [] c = "\f" -> "\\f"
      [] c = Chr(8) -> "\\b"
      [] OTHER -> JsonEscapeOrd(c, Ord(c))

\* json.dumps of the characters of a str from k on
RECURSIVE JsonEscape(_, _)
JsonEscape(text, k) ==
    IF k > Len(text) THEN ""
    ELSE JsonEscapeChar(SubSeq(text, k, k)) \o JsonEscape(text, k + 1)

\* json.dumps of a str
JsonString(text) == "\"" \o JsonEscape(text, 1) \o "\""

\* json.dumps of one value
JsonValue(i) == IF i.t = "str" THEN JsonString(i.v) ELSE i.v

RECURSIVE JsonItems(_, _)
JsonItems(items, k) ==
    IF k > Len(items) THEN ""
    ELSE (IF k > 1 THEN ", " ELSE "")
            \o JsonString(items[k].k) \o ": " \o JsonValue(items[k])
            \o JsonItems(items, k + 1)

\* json.dumps(data) of a dict
JsonDumps(items) == "{" \o JsonItems(items, 1) \o "}"

\* "\n".join(message)
RECURSIVE Join(_, _)
Join(message, k) ==
    IF k > Len(message) THEN ""
    ELSE (IF k > 1 THEN "\n" ELSE "") \o message[k] \o Join(message, k + 1)

\* EventLine that writes the event line whatever the event is
EventLineAlways(event) == <<"event: " \o event>>

\* "if event: message.append(f'event: {event}')"; "" stands for None too
EventLine(event) == IF event # "" THEN <<"event: " \o event>> ELSE << >>

\* prepare_sse_message(data, event)
prepare_sse_message(data, event) ==
    Join(EventLine(event)
            \o <<IF data.type = "dict"
                 THEN "data: " \o JsonDumps(data.items)
                 ELSE "data: " \o data.value>>
            \o <<"", "">>,
         1)

(***************************************************************************)
(* The conversation store: keep/api/models/db/ai_suggestion.py and the     *)
(* functions of keep.api.core.db that the service calls                    *)
(***************************************************************************)
\* the attributes of a Conversation row: its columns and its relationship
ConversationColumns ==
    {"id", "tenant_id", "user_email", "title", "context",
     "conversation_metadata", "created_at", "updated_at", "messages"}

\* the attributes of a Message row
MessageColumns ==
    {"id", "content", "role", "message_metadata", "created_at", "updated_at",
     "conversation_id", "conversation"}

\* the outcome of a call on the store: status "ok" or the exception raised
AiResult(cdb, status, id, value) ==
    [cdb |-> cdb, status |-> status, id |-> id, value |-> value]

\* the conversation is one of this tenant and user
OwnedBy(cdb, tenant_id, user_email, conversation_id) ==
    /\ conversation_id \in DOMAIN cdb
    /\ cdb[conversation_id].tenant_id = tenant_id
    /\ cdb[conversation_id].user_email = user_email

\* the next uuid4 of a conversation: the least unused id (0 when the bound
\* is exhausted)
NewConversationId(cdb) ==
    IF ConversationIds \ DOMAIN cdb = {} THEN 0
    ELSE MinOf(ConversationIds \ DOMAIN cdb)

\* db.create_ai_assistant_conversation: a new row with the initial messages
create_ai_assistant_conversation(cdb, tenant_id, user_email, title, context, metadata, initial_messages, id) ==
    [i \in DOMAIN cdb \cup {id} |->
        IF i = id
        THEN [tenant_id |-> tenant_id, user_email |-> user_email,
              title |-> title, context |-> context, metadata |-> metadata,
              messages |-> initial_messages]
        ELSE cdb[i]]

\* db.update_ai_assistant_conversation: sets the fields update_data names
\* in the conversation of this tenant and user, or ValueError
update_ai_assistant_conversation(cdb, tenant_id, user_email, conversation_id, update_data) ==
    IF OwnedBy(cdb, tenant_id, user_email, conversation_id)
    THEN AiResult([cdb EXCEPT ![conversation_id] =
                      [k \in DOMAIN @ |->
                          IF k \in DOMAIN update_data THEN update_data[k]
                          ELSE @[k]]],
                  "ok", conversation_id, << >>)
    ELSE AiResult(cdb, "ValueError", conversation_id, << >>)

\* db.get_ai_assistant_conversation: the row of this tenant and user, or
\* ValueError
get_ai_assistant_conversation(cdb, tenant_id, user_email, conversation_id) ==
    IF OwnedBy(cdb, tenant_id, user_email, conversation_id)
    THEN AiResult(cdb, "ok", conversation_id, cdb[conversation_id])
    ELSE AiResult(cdb, "ValueError", conversation_id, << >>)

\* db.get_ai_assistant_messages(conversation_id): the messages in stored
\* order
get_ai_assistant_messages(cdb, conversation_id) ==
    IF conversation_id \in DOMAIN cdb THEN cdb[conversation_id].messages
    ELSE << >>

\* db.add_ai_assistant_message: appends to the conversation of this tenant
\* and user, or ValueError
add_ai_assistant_message(cdb, tenant_id, user_email, conversation_id, content, role) ==
    IF OwnedBy(cdb, tenant_id, user_email, conversation_id)
    THEN AiResult([cdb EXCEPT ![conversation_id].messages =
                      Append(@, Message(role, content))],
                  "ok", conversation_id, Message(role, content))
    ELSE AiResult(cdb, "ValueError", conversation_id, << >>)

(***************************************************************************)
(* keep/api/ai_assistant/service.py (AIAssistantService)                   *)
(***************************************************************************)
\* the attributes AIAssistantService.get_conversation reads of the row
GetConversationReads ==
    {"id", "title", "user_id", "context", "conversation_metadata",
     "created_at", "updated_at"}

\* the attributes AIAssistantService.add_message reads of the message
AddMessageReads ==
    {"id", "content", "role", "conversation_id", "message_metadata",
     "created_at", "updated_at"}

\* reading attributes of a row: AttributeError unless each is one of its
\* attributes
AttributeError(reads, columns) == ~(reads \subseteq columns)

\* the ConversationReadDto of get_conversation
ConversationRead(cdb, conversation_id) ==
    [id |-> conversation_id, title |-> cdb[conversation_id].title,
     context |-> cdb[conversation_id].context,
     metadata |-> cdb[conversation_id].metadata,
     messages |-> get_ai_assistant_messages(cdb, conversation_id)]

\* AIAssistantService.get_conversation; every exception is logged and
\* raised again
get_conversation(cdb, tenant_id, user_email, conversation_id) ==
    IF get_ai_assistant_conversation(cdb, tenant_id, user_email,
                                     conversation_id).status # "ok"
    THEN AiResult(cdb, "ValueError", conversation_id, << >>)
    ELSE IF AttributeError(GetConversationReads, ConversationColumns)
    THEN AiResult(cdb, "AttributeError", conversation_id, << >>)
    ELSE AiResult(cdb, "ok", conversation_id, ConversationRead(cdb, conversation_id))

\* AIAssistantService.create_conversation(conversation_dto): the row is
\* committed, then get_conversation builds the answer
create_conversation(cdb, tenant_id, user_email, conversation_dto, id) ==
    get_conversation(
        create_ai_assistant_conversation(cdb, tenant_id, user_email,
                                         conversation_dto.title,
                                         conversation_dto.context,
                                         conversation_dto.metadata,
                                         conversation_dto.messages, id),
        tenant_id, user_email, id)

\* conversation_dto.model_dump(exclude_unset=True): the fields the request
\* set, a ConversationUpdateDto being a function from those to their values
ModelDump(conversation_dto) == conversation_dto

\* update_conversation once update_ai_assistant_conversation returned u or
\* raised
ConversationUpdated(u, tenant_id, user_email, conversation_id) ==
    IF u.status # "ok" THEN u
    ELSE get_conversation(u.cdb, tenant_id, user_email, conversation_id)

\* AIAssistantService.update_conversation: the row is updated, then
\* get_conversation builds the answer; every exception is raised again
update_conversation(cdb, tenant_id, user_email, conversation_id, conversation_dto) ==
    ConversationUpdated(
        update_ai_assistant_conversation(cdb, tenant_id, user_email,
                                         conversation_id,
                                         ModelDump(conversation_dto)),
        tenant_id, user_email, conversation_id)

\* the MessageReadDto built by add_message once the store returned r
MessageRead(r) ==
    IF r.status # "ok" THEN r
    ELSE IF AttributeError(AddMessageReads, MessageColumns)
    THEN [r EXCEPT !.status = "AttributeError"]
    ELSE r

\* AIAssistantService.add_message
add_message(cdb, tenant_id, user_email, conversation_id, content, role) ==
    MessageRead(add_ai_assistant_message(cdb, tenant_id, user_email,
                                         conversation_id, content, role))

\* AIAssistantService.get_chat_history: role and content of every message
get_chat_history(cdb, conversation_id) ==
    [k \in DOMAIN get_ai_assistant_messages(cdb, conversation_id) |->
        Message(get_ai_assistant_messages(cdb, conversation_id)[k].role,
                get_ai_assistant_messages(cdb, conversation_id)[k].content)]

\* the LLM behind client.chat.completions.create. A completion is
\* [reply, raises]: the content of the first choice, or the call raises. A
\* stream is [chunks, raises]: the delta contents in order ("" for a chunk
\* with no choices or no content), after which the stream ends or raises
Completion(reply, raises) == [reply |-> reply, chunks |-> << >>, raises |-> raises]
Stream(chunks, raises) == [reply |-> "", chunks |-> chunks, raises |-> raises]

\* str(e) of the exception the LLM client raises
LlmError == "APIError"

\* "OpenAI client is not initialized. Check your API keys."
ClientError == "OpenAI client is not initialized. Check your API keys."

\* HasContent that lets every chunk through
HasContentAlways(content) == TRUE

\* "if chunk.choices and chunk.choices[0].delta.content"
HasContent(content) == content # ""

\* the tokens _stream_response yields of the chunks
Tokens(chunks) == SelectSeq(chunks, HasContent)

\* full_response: "full_response += content" over the tokens from k on
RECURSIVE FullResponse(_, _)
FullResponse(tokens, k) ==
    IF k > Len(tokens) THEN ""
    ELSE tokens[k] \o FullResponse(tokens, k + 1)

\* what a run of _stream_response to its end leaves: the store and the
\* chunks yielded
Streamed(cdb, yields, persisted) ==
    [cdb |-> cdb, yields |-> yields, persisted |-> persisted]

\* the end of _stream_response once add_message returned r or raised
StreamPersisted(cdb, r, tokens) ==
    IF r.status = "ok" THEN Streamed(r.cdb, tokens, TRUE)
    ELSE Streamed(cdb, tokens \o <<"Error: " \o r.status>>, FALSE)

\* "if full_response:" of _stream_response
PersistFullResponse(full_response) == full_response # ""

\* AIAssistantService._stream_response, iterated to its end
_stream_response(cdb, tenant_id, user_email, conversation_id, messages, llm) ==
    IF llm.raises
    THEN Streamed(cdb, Tokens(llm.chunks) \o <<"Error: " \o LlmError>>, FALSE)
    ELSE IF ~PersistFullResponse(FullResponse(Tokens(llm.chunks), 1))
    THEN Streamed(cdb, Tokens(llm.chunks), FALSE)
    ELSE StreamPersisted(cdb,
             add_message(cdb, tenant_id, user_email, conversation_id,
                         FullResponse(Tokens(llm.chunks), 1), "assistant"),
             Tokens(llm.chunks))

\* the end of _generate_complete_response once add_message returned r or
\* raised: the reply, or the exception raised again
CompletePersisted(r, assistant_message) ==
    IF r.status = "ok" THEN AiResult(r.cdb, "ok", r.id, assistant_message)
    ELSE AiResult(r.cdb, r.status, r.id, "")

\* AIAssistantService._generate_complete_response
_generate_complete_response(cdb, tenant_id, user_email, conversation_id, messages, llm) ==
    IF llm.raises THEN AiResult(cdb, LlmError, conversation_id, "")
    ELSE CompletePersisted(
             add_message(cdb, tenant_id, user_email, conversation_id,
                         llm.reply, "assistant"),
             llm.reply)

\* how far a call of generate_response got without giving up the event
\* loop: it returned a str (kind "str": the reply or an error message), it
\* returned the generator of _stream_response (kind "async_generator"), or
\* it is suspended at "await client.chat.completions.create(...)" of
\* _generate_complete_response (kind "awaiting"); with the history it read
\* and whether it reached the LLM call
Generated(cdb, kind, text, history, called) ==
    [cdb |-> cdb, kind |-> kind, text |-> text, history |-> history,
     called |-> called]

\* the "except Exception" of generate_response around the complete response
GenerateHandler(r, history) ==
    IF r.status = "ok" THEN Generated(r.cdb, "str", r.value, history, TRUE)
    ELSE Generated(r.cdb, "str", "Error generating response: " \o r.status,
                   history, TRUE)

\* generate_response from the LLM's answer llm on, on the store as it is
\* then: the rest of _generate_complete_response and the handler around it
GenerateAnswered(cdb, tenant_id, user_email, conversation_id, history, llm) ==
    GenerateHandler(
        _generate_complete_response(cdb, tenant_id, user_email,
                                    conversation_id, history, llm),
        history)

\* generate_response once its add_message of the user's message returned a
\* or raised, up to the LLM call of the complete response
GenerateAdded(a, conversation_id, stream) ==
    IF a.status # "ok"
    THEN Generated(a.cdb, "str", "Error generating response: " \o a.status,
                   << >>, FALSE)
    ELSE IF stream
    THEN Generated(a.cdb, "async_generator", "",
                   get_chat_history(a.cdb, conversation_id), FALSE)
    ELSE Generated(a.cdb, "awaiting", "",
                   get_chat_history(a.cdb, conversation_id), TRUE)

\* ClientMissing that never finds the client missing
ClientNeverMissing(cl) == FALSE

\* "if not client": the module-level client is None
ClientMissing(cl) == ~cl

\* AIAssistantService.generate_response, from its start to its return or
\* to the LLM call it awaits (add_message and get_chat_history do not
\* await)
generate_response(cdb, cl, tenant_id, user_email, conversation_id, message, stream) ==
    IF ClientMissing(cl)
    THEN Generated(cdb, "str", ClientError, << >>, FALSE)
    ELSE GenerateAdded(
             add_message(cdb, tenant_id, user_email, conversation_id,
                         message, "user"),
             conversation_id, stream)

(***************************************************************************)
(* keep/api/routes/ai_assistant.py                                         *)
(***************************************************************************)
\* "ConversationCreateDto(**x)": TypeError unless x is a mapping
UnpackError(x) == x.type # "dict"

\* the object a call returns before it is awaited or iterated: a coroutine
\* for "async def generate_response" (it has no yield), an async generator
\* for "async def _stream_response" (it has one)
CallKind(fn) ==
    IF fn = "_stream_response" THEN "async_generator" ELSE "coroutine"

\* "async for chunk in x": TypeError unless x is an async iterable
AsyncForError(kind) == kind # "async_generator"

\* "if not conversation_id" of chat and of event_generator: the system
\* prompt is formatted for storage and the conversation created
NewConversation(cdb, tenant_id, user_email, id) ==
    IF UnpackError(format_conversation_for_storage(
                       <<Message("system", create_system_prompt(NoContext))>>,
                       << >>))
    THEN AiResult(cdb, "TypeError", 0, << >>)
    ELSE create_conversation(cdb, tenant_id, user_email,
             format_conversation_for_storage(
                 <<Message("system", create_system_prompt(NoContext))>>, << >>),
             id)

\* the events of event_generator
SseCreated(id) ==
    prepare_sse_message(DictData(<<Item("conversation_id", ToString(id), "str")>>),
                        "conversation_created")

SseChunk(chunk) == prepare_sse_message(StrData(chunk), "message_chunk")

SseComplete(id) ==
    prepare_sse_message(DictData(<<Item("conversation_id", ToString(id), "str"),
                                   Item("complete", "true", "bool")>>),
                        "message_complete")

SseError(e) == prepare_sse_message(DictData(<<Item("error", e, "str")>>), "error")

\* the response of chat: the HTTP status, the conversation id and message
\* of the body, the events of a streamed body, and of the generation the
\* history read and whether the LLM was called
ChatResponse(cdb, status, reported, body, events, history, called) ==
    [cdb |-> cdb, status |-> status, reported |-> reported, body |-> body,
     events |-> events, history |-> history, called |-> called]

\* the loop "async for chunk in ...: yield message_chunk" and the
\* message_complete event, once the generator ran to its end as g
EventsStreamed(g, events, id, history) ==
    ChatResponse(g.cdb, "200", id, "",
                 events \o [k \in DOMAIN g.yields |-> SseChunk(g.yields[k])]
                        \o <<SseComplete(id)>>,
                 history, TRUE)

\* the iteration of what generate_response returned as g
EventsGenerated(g, events, tenant_id, user_email, id, llm) ==
    IF AsyncForError(g.kind)
    THEN ChatResponse(g.cdb, "200", id, "", events \o <<SseError("TypeError")>>,
                      g.history, FALSE)
    ELSE EventsStreamed(
             _stream_response(g.cdb, tenant_id, user_email, id, g.history, llm),
             events, id, g.history)

\* event_generator from "async for chunk in ai_service.generate_response("
\* on: the call is not awaited
EventsChunks(cdb, cl, tenant_id, user_email, id, message, llm, events) ==
    IF AsyncForError(CallKind("generate_response"))
    THEN ChatResponse(cdb, "200", id, "", events \o <<SseError("TypeError")>>,
                      << >>, FALSE)
    ELSE EventsGenerated(
             generate_response(cdb, cl, tenant_id, user_email, id, message,
                               TRUE),
             events, tenant_id, user_email, id, llm)

\* event_generator once the new conversation was created as c or that
\* raised
EventsCreated(c, cl, tenant_id, user_email, message, llm) ==
    IF c.status # "ok"
    THEN ChatResponse(c.cdb, "200", 0, "", <<SseError(c.status)>>, << >>, FALSE)
    ELSE EventsChunks(c.cdb, cl, tenant_id, user_email, c.id, message, llm,
                      <<SseCreated(c.id)>>)

\* _stream_chat_response: the EventSourceResponse over event_generator,
\* read to its end
_stream_chat_response(cdb, cl, tenant_id, user_email, message, conversation_id, llm, id) ==
    IF conversation_id = 0
    THEN EventsCreated(NewConversation(cdb, tenant_id, user_email, id),
                       cl, tenant_id, user_email, message, llm)
    ELSE EventsChunks(cdb, cl, tenant_id, user_email, conversation_id,
                      message, llm, << >>)

\* the body of a chat response that is not streamed, once
\* "await ai_service.generate_response(...)" returned g; status "awaiting"
\* while that call is suspended at the LLM call
ChatGenerated(g, id) ==
    ChatResponse(g.cdb, IF g.kind = "awaiting" THEN "awaiting" ELSE "200", id,
                 g.text, << >>, g.history, g.called)

\* chat, not streamed, once the new conversation was created as c or that
\* raised: "except Exception" gives HTTP 500
ChatCreated(c, cl, tenant_id, user_email, message) ==
    IF c.status # "ok"
    THEN ChatResponse(c.cdb, "500", 0, "", << >>, << >>, FALSE)
    ELSE ChatGenerated(
             generate_response(c.cdb, cl, tenant_id, user_email, c.id,
                               message, FALSE),
             c.id)

\* POST /chat, from its start to its response or to the LLM call it awaits
chat(cdb, cl, tenant_id, user_email, message, conversation_id, stream, llm, id) ==
    IF stream
    THEN _stream_chat_response(cdb, cl, tenant_id, user_email, message,
                               conversation_id, llm, id)
    ELSE IF conversation_id = 0
    THEN ChatCreated(NewConversation(cdb, tenant_id, user_email, id),
                     cl, tenant_id, user_email, message)
    ELSE ChatGenerated(
             generate_response(cdb, cl, tenant_id, user_email,
                               conversation_id, message, FALSE),
             conversation_id)

\* POST /chat from the LLM's answer llm on, on the store as it is then
ChatAnswered(cdb, tenant_id, user_email, conversation_id, history, llm) ==
    ChatGenerated(
        GenerateAnswered(cdb, tenant_id, user_email, conversation_id,
                         history, llm),
        conversation_id)

\* the HTTP status of a route whose service call ended with status:
\* ValueError gives 404 where the route catches it, any other exception 500
HttpStatus(status) ==
    IF status = "ok" THEN "200"
    ELSE IF status = "ValueError" THEN "404"
    ELSE "500"

(***************************************************************************)
(* The AI assistant as a state machine: the requests are tasks of one      *)
(* event loop. A request runs without a switch from its start to its end   *)
(* or to an await of the LLM, and again from the LLM's answer on; other    *)
(* requests run in between                                                 *)
(***************************************************************************)
\* number of messages the store may hold
MaxHistory == 4
\* number of requests that wait for the LLM at once
MaxRequests == 2

RequestIds == 1..MaxRequests

\* a request suspended at the LLM: the route or service call it came
\* through (op), where it waits (pc "awaiting": at "await
\* client.chat.completions.create(...)" of _generate_complete_response;
\* "streaming": in the generator of _stream_response), its arguments, the
\* history it read, the answer the LLM gives it and the chunks yielded so
\* far
Request(op, pc, tenant_id, user_email, conversation_id, stream, message, history, llm, yields) ==
    [op |-> op, pc |-> pc, tenant_id |-> tenant_id, user_email |-> user_email,
     conversation_id |-> conversation_id, stream |-> stream,
     message |-> message, history |-> history, llm |-> llm, yields |-> yields]

\* the least request id not in flight (0 when the bound is exhausted)
NewRequestId(reqs) ==
    IF RequestIds \ DOMAIN reqs = {} THEN 0
    ELSE MinOf(RequestIds \ DOMAIN reqs)

WithRequest(reqs, r, request) ==
    [i \in DOMAIN reqs \cup {r} |-> IF i = r THEN request ELSE reqs[i]]

WithoutRequest(reqs, r) == [i \in DOMAIN reqs \ {r} |-> reqs[i]]

RECURSIVE StoredMessages(_, _)
StoredMessages(cdb, ids) ==
    IF ids = {} THEN 0
    ELSE Len(cdb[MinOf(ids)].messages) + StoredMessages(cdb, ids \ {MinOf(ids)})

InitAssistant ==
    /\ providers = [i \in {} |-> NoCall]
    /\ secrets = [k \in {} |-> NoCall]
    /\ consumers = {}
    /\ rules = {}
    /\ last = NoCall
    /\ client \in BOOLEAN
    /\ conversations = [i \in {} |-> NoCall]
    /\ requests = [i \in {} |-> NoCall]
    /\ response = NoResponse

SetConversations(cdb) ==
    /\ conversations' = cdb
    /\ UNCHANGED <<client, requests>>
    /\ UNCHANGED providerVars

SetStore(cdb, reqs) ==
    /\ conversations' = cdb
    /\ requests' = reqs
    /\ UNCHANGED client
    /\ UNCHANGED providerVars

\* room for n more messages, beside the one every request in flight may
\* still store
HasRoom(n) ==
    StoredMessages(conversations, DOMAIN conversations)
        + Cardinality(DOMAIN requests) + n <= MaxHistory

\* create_conversation returned r or raised: every exception is HTTP 500
ConversationCreated(tenant_id, user_email, r) ==
    /\ SetConversations(r.cdb)
    /\ response' = [NoResponse EXCEPT
                      !.op = "create_conversation", !.tenant_id = tenant_id,
                      !.user_email = user_email, !.reported = r.id,
                      !.status = IF r.status = "ok" THEN "200" ELSE "500"]

\* POST /conversations
CreateConversation(tenant_id, user_email, title, messages) ==
    /\ response.op = "none"
    /\ NewConversationId(conversations) # 0
    /\ HasRoom(Len(messages))
    /\ ConversationCreated(tenant_id, user_email,
          create_conversation(conversations, tenant_id, user_email,
                              [title |-> title, context |-> << >>,
                               metadata |-> << >>, messages |-> messages],
                              NewConversationId(conversations)))

\* the response of chat, recorded
ChatResponded(q, r) ==
    response' = [NoResponse EXCEPT
                   !.op = "chat", !.tenant_id = q.tenant_id,
                   !.user_email = q.user_email,
                   !.conversation_id = q.conversation_id,
                   !.message = q.message, !.stream = q.stream,
                   !.status = r.status, !.reported = r.reported,
                   !.body = r.body, !.events = r.events,
                   !.history = r.history, !.called = r.called,
                   !.reply = q.llm.reply, !.chunks = q.llm.chunks,
                   !.raises = q.llm.raises]

\* chat as request q ran to r: it answered, or it waits for the LLM
ChatBegun(q, r) ==
    IF r.status = "awaiting"
    THEN /\ SetStore(r.cdb, WithRequest(requests, NewRequestId(requests),
                                        [q EXCEPT !.history = r.history]))
         /\ UNCHANGED response
    ELSE /\ SetStore(r.cdb, requests)
         /\ ChatResponded(q, r)

\* POST /chat: the request runs to its response, or to the LLM call
Chat(tenant_id, user_email, message, conversation_id, stream, llm) ==
    /\ response.op = "none"
    /\ conversation_id = 0 => NewConversationId(conversations) # 0
    /\ NewRequestId(requests) # 0
    /\ HasRoom(2)
    /\ ChatBegun(
          Request("chat", "awaiting", tenant_id, user_email, conversation_id,
                  stream, message, << >>, llm, << >>),
          chat(conversations, client, tenant_id, user_email, message,
               conversation_id, stream, llm, NewConversationId(conversations)))

\* the rest of chat ran to r
ChatEnded(q, r) ==
    /\ SetStore(r.cdb, WithoutRequest(requests, q))
    /\ ChatResponded(requests[q], r)

\* the LLM answers the chat request q: the request runs to its response
ChatEnd(q) ==
    /\ q \in DOMAIN requests
    /\ requests[q].op = "chat"
    /\ response.op = "none"
    /\ ChatEnded(q,
          ChatAnswered(conversations, requests[q].tenant_id,
                       requests[q].user_email, requests[q].conversation_id,
                       requests[q].history, requests[q].llm))

\* update_conversation returned r or raised
ConversationPatched(tenant_id, user_email, conversation_id, conversation_dto, r) ==
    /\ SetConversations(r.cdb)
    /\ response' = [NoResponse EXCEPT
                      !.op = "update_conversation", !.tenant_id = tenant_id,
                      !.user_email = user_email,
                      !.conversation_id = conversation_id,
                      !.context = conversation_dto,
                      !.status = HttpStatus(r.status)]

\* PATCH /conversations/{conversation_id}
UpdateConversation(tenant_id, user_email, conversation_id, conversation_dto) ==
    /\ response.op = "none"
    /\ ConversationPatched(tenant_id, user_email, conversation_id,
          conversation_dto,
          update_conversation(conversations, tenant_id, user_email,
                              conversation_id, conversation_dto))

\* get_conversation returned r or raised
ConversationGot(tenant_id, user_email, conversation_id, r) ==
    /\ SetConversations(r.cdb)
    /\ response' = [NoResponse EXCEPT
                      !.op = "get_conversation", !.tenant_id = tenant_id,
                      !.user_email = user_email,
                      !.conversation_id = conversation_id,
                      !.status = HttpStatus(r.status),
                      !.messages = IF r.status = "ok" THEN r.value.messages
                                   ELSE << >>]

\* GET /conversations/{conversation_id}
GetConversation(tenant_id, user_email, conversation_id) ==
    /\ response.op = "none"
    /\ ConversationGot(tenant_id, user_email, conversation_id,
          get_conversation(conversations, tenant_id, user_email,
                           conversation_id))

\* the caller takes the response; the next request can start
ReturnResponse ==
    /\ response.op # "none"
    /\ response' = NoResponse
    /\ UNCHANGED <<client, conversations, requests>>
    /\ UNCHANGED providerVars

(***************************************************************************)
(* SpecChat: conversations of two users of tenant t1, created, renamed,    *)
(* chatted with (streamed or not, several requests at once) and read back  *)
(***************************************************************************)
\* the LLM's answers to a request that is not streamed
Completions == {Completion("a", FALSE), Completion("", TRUE)}

\* the LLM's streams: no chunk, a chunk without content, one token, and two
\* tokens around a chunk without content; each ends or raises
TokenStreams ==
    {Stream(c, r) : c \in {<< >>, <<"">>, <<"a">>, <<"a", "", "b">>},
                    r \in BOOLEAN}

\* the bodies of PATCH requests: the fields they set
UpdateInputs ==
    {[title |-> <<"new">>],
     [title |-> <<"other">>, context |-> <<[user |-> "x"]>>]}

NextChat ==
    \/ \E m \in {<< >>, <<Message("system", BasePrompt)>>} :
          CreateConversation("t1", "alice", << >>, m)
    \/ \E u \in Users, id \in ConversationIds \cup {0}, llm \in Completions :
          Chat("t1", u, "hi", id, FALSE, llm)
    \/ \E u \in Users, id \in ConversationIds \cup {0}, llm \in TokenStreams :
          Chat("t1", u, "hi", id, TRUE, llm)
    \/ \E q \in RequestIds : ChatEnd(q)
    \/ \E u \in Users, id \in ConversationIds : GetConversation("t1", u, id)
    \/ \E u \in Users, id \in ConversationIds, dto \in UpdateInputs :
          UpdateConversation("t1", u, id, dto)
    \/ ReturnResponse

SpecChat == InitAssistant /\ [][NextChat]_vars

\* the content tokens of a stream: its chunks that carry content
ContentTokens(chunks) == SelectSeq(chunks, LAMBDA c : c # "")

\* the events the relay is to emit for a streamed chat r that ran in
\* conversation id without an exception
ExpectedEvents(r, id) ==
    (IF r.conversation_id = 0 THEN <<SseCreated(id)>> ELSE << >>)
    \o [k \in DOMAIN ContentTokens(r.chunks) |-> SseChunk(ContentTokens(r.chunks)[k])]
    \o <<SseComplete(id)>>

\* the conversation a chat runs in: the one it names, which is the
\* caller's, or a new one
ChatConversation(r, cdb, id) ==
    IF r.conversation_id = 0 THEN id \notin DOMAIN cdb
    ELSE id = r.conversation_id /\ OwnedBy(cdb, r.tenant_id, r.user_email, id)

\* C11: a streamed chat whose LLM stream ends without an exception emits
\* conversation_created exactly when the request named no conversation,
\* then one message_chunk per token in the LLM's order, then one
\* message_complete with the conversation id, and no error event
C11_StreamEventSequence ==
    [][(/\ response'.op = "chat"
        /\ response'.stream
        /\ client
        /\ ~response'.raises
        /\ \E id \in ConversationIds : ChatConversation(response', conversations, id))
       => \E id \in ConversationIds :
             /\ ChatConversation(response', conversations, id)
             /\ response'.events = ExpectedEvents(response', id)]_vars

\* C12: a chat that is not streamed, on an existing conversation of the
\* caller, whose LLM call succeeds answers with the LLM's reply; the
\* history sent to the LLM ends with the user's message, and when the
\* request has answered the conversation holds the history the request
\* started from and exactly two messages more: the user's message, then
\* an assistant message with that reply
C12_CompleteChatPersists ==
    [][(/\ response'.op = "chat"
        /\ ~response'.stream
        /\ response'.conversation_id \in DOMAIN conversations
        /\ response'.called
        /\ ~response'.raises)
       => /\ response'.status = "200"
          /\ response'.body = response'.reply
          /\ response'.reported = response'.conversation_id
          /\ response'.history # << >>
          /\ response'.history[Len(response'.history)] =
                [role |-> "user", content |-> response'.message]
          /\ conversations'[response'.conversation_id].messages =
                response'.history
                \o <<[role |-> "assistant", content |-> response'.reply]>>]_vars

\* C13: a chat that names no conversation, streamed or not, creates
\* exactly one conversation, the caller's, whose first message is the
\* system prompt with role system, and reports its id
C13_ChatCreatesConversation ==
    [][(response'.op = "chat" /\ response'.conversation_id = 0)
       => \E id \in DOMAIN conversations' \ DOMAIN conversations :
             /\ DOMAIN conversations' = DOMAIN conversations \cup {id}
             /\ conversations'[id].tenant_id = response'.tenant_id
             /\ conversations'[id].user_email = response'.user_email
             /\ Len(conversations'[id].messages) >= 1
             /\ conversations'[id].messages[1] =
                   [role |-> "system", content |-> BasePrompt]
             /\ response'.reported = id]_vars

\* C19: GET /conversations/{conversation_id} answers a conversation of
\* the caller with HTTP 200 and its stored messages in stored order, and
\* answers any other with 404 or 500 and no messages
C19_GetConversationReturnsMessages ==
    [][response'.op = "get_conversation"
       => IF OwnedBy(conversations, response'.tenant_id, response'.user_email,
                     response'.conversation_id)
          THEN /\ response'.status = "200"
               /\ response'.messages =
                     conversations[response'.conversation_id].messages
          ELSE /\ response'.status \in {"404", "500"}
               /\ response'.messages = << >>]_vars

(***************************************************************************)
(* SpecUtils: the two pure functions of utils.py applied to bounded inputs *)
(***************************************************************************)
\* prepare_sse_message(data, event) is called and returns
PrepareSseMessage(data, event) ==
    /\ response.op = "none"
    /\ response' = [NoResponse EXCEPT
                      !.op = "prepare_sse_message", !.data = data,
                      !.event = event,
                      !.result = prepare_sse_message(data, event)]
    /\ UNCHANGED <<client, conversations, requests>>
    /\ UNCHANGED providerVars

\* create_system_prompt(context) is called and returns
CreateSystemPrompt(context) ==
    /\ response.op = "none"
    /\ response' = [NoResponse EXCEPT
                      !.op = "create_system_prompt", !.context = context,
                      !.result = create_system_prompt(context)]
    /\ UNCHANGED <<client, conversations, requests>>
    /\ UNCHANGED providerVars

\* format_conversation_for_storage(messages, context) is called and
\* returns
FormatConversation(messages, context) ==
    /\ response.op = "none"
    /\ response' = [NoResponse EXCEPT
                      !.op = "format_conversation_for_storage",
                      !.messages = messages,
                      !.context = context,
                      !.title = format_conversation_for_storage(messages, context).title,
                      !.formatted = format_conversation_for_storage(messages, context).messages,
                      !.stored = format_conversation_for_storage(messages, context).context]
    /\ UNCHANGED <<client, conversations, requests>>
    /\ UNCHANGED providerVars

\* contents of 49, 50 and 51 characters
Content49 == "0123456789012345678901234567890123456789012345678"
Content50 == Content49 \o "9"
Content51 == Content50 \o "x"

Contents == {"", "hello", Content49, Content50, Content51}
Roles == {"user", "assistant", "system", "tool"}
MessageInputs == {Message(r, c) : r \in Roles, c \in Contents}

DataInputs ==
    {StrData(""), StrData("a"), StrData("a\nb"), DictData(<< >>),
     DictData(<<Item("error", "x", "str")>>),
     DictData(<<Item("error", "a\"b", "str")>>),
     DictData(<<Item("error", "a\\b", "str")>>),
     DictData(<<Item("error", "line1\nline2", "str")>>),
     DictData(<<Item("error", "a" \o Chr(8) \o "c", "str")>>),
     DictData(<<Item("error", "a" \o Chr(1) \o "c", "str")>>),
     DictData(<<Item("error", "a" \o Chr(127) \o "c", "str")>>),
     DictData(<<Item("error", "caf" \o WideChars[1].c, "str")>>),
     DictData(<<Item(WideChars[2].c, "5", "int")>>),
     StrData("a" \o Chr(8) \o "c"),
     DictData(<<Item("conversation_id", "1", "str"), Item("complete", "true", "bool")>>)}
EventInputs == {"", "message_chunk", "error"}
ContextInputs ==
    {NoContext, [user |-> "alice"],
     [incident |-> [name |-> "db down", id |-> "7"]],
     [incident |-> [summary |-> "disk full"], alerts |-> <<"a1", "a2">>],
     [user |-> "bob", incident |-> NoContext, alerts |-> << >>]}

NextUtils ==
    \/ \E d \in DataInputs, e \in EventInputs : PrepareSseMessage(d, e)
    \/ \E m \in SeqsUpTo(MessageInputs, MaxMessages),
          c \in {<< >>, <<[user |-> "alice"]>>} : FormatConversation(m, c)
    \/ \E c \in ContextInputs : CreateSystemPrompt(c)
    \/ ReturnResponse

SpecUtils == InitAssistant /\ [][NextUtils]_vars

\* C16: the result of prepare_sse_message is the line "event: <event>"
\* exactly when event is not empty, then "data: <payload>" and two
\* newlines, the payload being json.dumps(data) for a dict and data itself
\* otherwise
C16_SseMessageFormat ==
    response.op = "prepare_sse_message"
    => response.result =
          (IF response.event # "" THEN "event: " \o response.event \o "\n" ELSE "")
          \o "data: "
          \o (IF response.data.type = "dict" THEN JsonDumps(response.data.items)
              ELSE response.data.value)
          \o "\n\n"

\* a dict whose value holds a quote, sent with an event name
C16_Witness ==
    /\ response.op = "prepare_sse_message"
    /\ response.event = "error"
    /\ response.data = DictData(<<Item("error", "a\"b", "str")>>)
    /\ response.result = "event: error\ndata: {\"error\": \"a\\\"b\"}\n\n"

\* the index of the first message with role user, 0 when there is none
FirstUser(messages) ==
    IF \E k \in DOMAIN messages : messages[k].role = "user"
    THEN MinOf({k \in DOMAIN messages : messages[k].role = "user"})
    ELSE 0

\* the title of a first user message with this content
ExpectedTitle(content) ==
    IF Len(content) > 50 THEN SubSeq(content, 1, 50) \o "..." ELSE content

\* C17: format_conversation_for_storage keeps the messages and their
\* order, maps role user to USER, assistant to ASSISTANT and any other to
\* SYSTEM, and takes the title from the first user message: its first 50
\* characters, with "..." exactly when it is longer; no title without a
\* user message
C17_FormatForStorage ==
    response.op = "format_conversation_for_storage"
    => /\ Len(response.formatted) = Len(response.messages)
       /\ \A k \in DOMAIN response.messages :
             /\ response.formatted[k].content = response.messages[k].content
             /\ response.formatted[k].role =
                   (CASE response.messages[k].role = "user" -> "user"
                      [] response.messages[k].role = "assistant" -> "assistant"
                      [] OTHER -> "system")
       /\ IF FirstUser(response.messages) = 0 THEN response.title = << >>
          ELSE response.title =
                  <<ExpectedTitle(response.messages[FirstUser(response.messages)].content)>>

\* a tool message then a user message of 51 characters
C17_Witness ==
    /\ response.op = "format_conversation_for_storage"
    /\ Len(response.messages) = 2
    /\ response.messages[1].role = "tool"
    /\ response.formatted[1].role = "system"
    /\ response.messages[2] = [role |-> "user", content |-> Content51]
    /\ response.title = <<Content50 \o "...">>

(***************************************************************************)
(* SpecGenerate: AIAssistantService.generate_response called directly,     *)
(* with and without a client; a caller that asked for a stream iterates    *)
(* the generator it got to its end                                         *)
(***************************************************************************)
\* what the caller of generate_response has once it is done with the
\* value returned
GenerateResult(cdb, g, yields, persisted) ==
    [cdb |-> cdb, kind |-> g.kind, text |-> g.text, history |-> g.history,
     called |-> g.called \/ g.kind = "async_generator",
     yields |-> yields, persisted |-> persisted]

\* generate_response returned the str of g: the store is as the call left
\* it, with the assistant message that _generate_complete_response added
GenerateCompleted(g) == GenerateResult(g.cdb, g, << >>, FALSE)

\* the generator of _stream_response run to its end as st
GenerateStreamed(g, st) == GenerateResult(st.cdb, g, st.yields, st.persisted)

\* the outcome of generate_response, recorded
GenerateResponded(q, r) ==
    response' = [NoResponse EXCEPT
                   !.op = "generate_response", !.tenant_id = q.tenant_id,
                   !.user_email = q.user_email,
                   !.conversation_id = q.conversation_id,
                   !.message = q.message, !.stream = q.stream,
                   !.kind = r.kind, !.body = r.text,
                   !.history = r.history, !.called = r.called,
                   !.yields = r.yields, !.persisted = r.persisted,
                   !.reply = q.llm.reply, !.chunks = q.llm.chunks,
                   !.raises = q.llm.raises]

\* generate_response as request q ran to g: it returned a str, or it waits
\* for the LLM, or it returned the generator, which the caller iterates
GenerateBegun(q, g) ==
    IF g.kind = "str"
    THEN /\ SetStore(g.cdb, requests)
         /\ GenerateResponded(q, GenerateCompleted(g))
    ELSE /\ SetStore(g.cdb,
                     WithRequest(requests, NewRequestId(requests),
                         [q EXCEPT !.history = g.history,
                                   !.pc = IF g.kind = "awaiting" THEN "awaiting"
                                          ELSE "streaming"]))
         /\ UNCHANGED response

\* await ai_service.generate_response(...): the call runs to its return
\* or to the LLM call
GenerateBegin(tenant_id, user_email, conversation_id, message, stream, llm) ==
    /\ response.op = "none"
    /\ NewRequestId(requests) # 0
    /\ HasRoom(2)
    /\ GenerateBegun(
          Request("generate_response", "awaiting", tenant_id, user_email,
                  conversation_id, stream, message, << >>, llm, << >>),
          generate_response(conversations, client, tenant_id, user_email,
                            conversation_id, message, stream))

\* the generator of _stream_response of request q yields its next token
\* ("async for chunk in stream: ... yield content")
StreamYield(q) ==
    /\ q \in DOMAIN requests
    /\ requests[q].pc = "streaming"
    /\ Len(requests[q].yields) < Len(Tokens(requests[q].llm.chunks))
    /\ requests' = [requests EXCEPT ![q].yields =
                       Append(@, Tokens(requests[q].llm.chunks)[Len(@) + 1])]
    /\ UNCHANGED <<client, conversations, response>>
    /\ UNCHANGED providerVars

\* the request q is ready to run to its end: the LLM answers, or the
\* stream has no further token
ReadyToEnd(request) ==
    \/ request.pc = "awaiting"
    \/ /\ request.pc = "streaming"
       /\ Len(request.yields) = Len(Tokens(request.llm.chunks))

\* the rest of request q on the store as it is now: of
\* _generate_complete_response from the LLM's answer on, or of
\* _stream_response from the end of the stream on
GenerateRest(request, cdb) ==
    IF request.pc = "streaming"
    THEN GenerateStreamed(
             Generated(cdb, "async_generator", "", request.history, FALSE),
             _stream_response(cdb, request.tenant_id, request.user_email,
                              request.conversation_id, request.history,
                              request.llm))
    ELSE GenerateCompleted(
             GenerateAnswered(cdb, request.tenant_id, request.user_email,
                              request.conversation_id, request.history,
                              request.llm))

\* the rest of generate_response ran to r
GenerateEnded(q, r) ==
    /\ SetStore(r.cdb, WithoutRequest(requests, q))
    /\ GenerateResponded(requests[q], r)

\* the request q of generate_response runs to its end
GenerateEnd(q) ==
    /\ q \in DOMAIN requests
    /\ requests[q].op = "generate_response"
    /\ ReadyToEnd(requests[q])
    /\ response.op = "none"
    /\ GenerateEnded(q, GenerateRest(requests[q], conversations))

NextGenerate ==
    \/ (conversations = << >> /\ CreateConversation("t1", "alice", << >>, << >>))
    \/ \E u \in Users, id \in ConversationIds,
          llm \in {Completion("a", FALSE), Completion("", TRUE)} :
          GenerateBegin("t1", u, id, "hi", FALSE, llm)
    \/ \E u \in Users, id \in ConversationIds, llm \in TokenStreams :
          GenerateBegin("t1", u, id, "hi", TRUE, llm)
    \/ \E q \in RequestIds : StreamYield(q)
    \/ \E q \in RequestIds : GenerateEnd(q)
    \/ ReturnResponse

SpecGenerate == InitAssistant /\ [][NextGenerate]_vars

\* C14: without a client generate_response returns the message "OpenAI
\* client is not initialized. Check your API keys." as a str, calls no LLM
\* and stores no message
C14_NoClientNoEffect ==
    [][(response'.op = "generate_response" /\ ~client)
       => /\ response'.kind = "str"
          /\ response'.body = "OpenAI client is not initialized. Check your API keys."
          /\ ~response'.called
          /\ response'.yields = << >>
          /\ conversations' = conversations]_vars

\* generate_response was called without a client on a conversation of the
\* caller
C14_Witness ==
    /\ response.op = "generate_response"
    /\ ~client
    /\ OwnedBy(conversations, response.tenant_id, response.user_email,
               response.conversation_id)
    /\ response.body = ClientError

\* the tokens in order as one string
RECURSIVE Concatenation(_)
Concatenation(tokens) ==
    IF tokens = << >> THEN "" ELSE Head(tokens) \o Concatenation(Tail(tokens))

\* the sequence s begins the sequence t
IsPrefix(s, t) == Len(s) <= Len(t) /\ s = SubSeq(t, 1, Len(s))

\* C15: _stream_response yields the non-empty content tokens of the LLM
\* stream in order, then "Error: <exception>" if the stream raised; when
\* it ends it has stored one assistant message, the concatenation of the
\* tokens, if the stream ended normally after at least one token, and
\* nothing otherwise
C15_StreamYieldsAndPersists ==
    [][/\ \A q \in DOMAIN requests' :
             requests'[q].pc = "streaming"
                 => IsPrefix(requests'[q].yields,
                             ContentTokens(requests'[q].llm.chunks))
       /\ (/\ response.op = "none"
           /\ response'.op = "generate_response"
           /\ response'.kind = "async_generator")
          => /\ response'.yields =
                   ContentTokens(response'.chunks)
                   \o (IF response'.raises THEN <<"Error: " \o LlmError>> ELSE << >>)
             /\ conversations'[response'.conversation_id].messages =
                   conversations[response'.conversation_id].messages
                   \o (IF ~response'.raises /\ ContentTokens(response'.chunks) # << >>
                       THEN <<[role |-> "assistant",
                               content |-> Concatenation(ContentTokens(response'.chunks))]>>
                       ELSE << >>)
             /\ \A i \in DOMAIN conversations \ {response'.conversation_id} :
                   conversations'[i] = conversations[i]]_vars

\* a stream of two tokens was stored as one message
C15_Witness ==
    /\ response.op = "generate_response"
    /\ response.kind = "async_generator"
    /\ ~response.raises
    /\ response.yields = <<"a", "b">>
    /\ response.persisted
    /\ conversations[response.conversation_id].messages[
           Len(conversations[response.conversation_id].messages)] =
          [role |-> "assistant", content |-> "ab"]

\* a stream raised after a token: the token, then the error chunk, and no
\* assistant message
C15_WitnessRaise ==
    /\ response.op = "generate_response"
    /\ response.kind = "async_generator"
    /\ response.raises
    /\ response.yields = <<"a", "Error: APIError">>
    /\ ~response.persisted

(***************************************************************************)
(* SpecConcurrent: generate_response calls that each ask their own         *)
(* question, which the LLM answers with "re:" and the question             *)
(***************************************************************************)
\* the message of the request that takes the slot r, and the LLM's answer
\* to a message
Question(r) == "q" \o ToString(r)
Answer(message) == "re:" \o message

\* the LLM's answer to a message: its answer, whole or streamed, or an
\* exception
AnswerTo(message, stream, raises) ==
    IF stream
    THEN Stream(IF raises THEN << >> ELSE <<Answer(message)>>, raises)
    ELSE Completion(IF raises THEN "" ELSE Answer(message), raises)

NextConcurrent ==
    \/ \E u \in Users : CreateConversation("t1", u, << >>, << >>)
    \/ ReturnResponse
    \/ \E u \in Users, id \in ConversationIds, st \in BOOLEAN, raises \in BOOLEAN :
          GenerateBegin("t1", u, id, Question(NewRequestId(requests)), st,
                        AnswerTo(Question(NewRequestId(requests)), st, raises))
    \/ \E q \in RequestIds : StreamYield(q)
    \/ \E q \in RequestIds : GenerateEnd(q)

SpecConcurrent == InitAssistant /\ [][NextConcurrent]_vars

\* an assistant message directly follows the user message it answers
FollowsItsQuestion(messages, k) ==
    /\ k > 1
    /\ messages[k - 1].role = "user"
    /\ messages[k].content = Answer(messages[k - 1].content)

\* the history sent for request r holds the message of request o
SentWith(r, o) ==
    \E k \in DOMAIN requests[r].history :
        requests[r].history[k] = [role |-> "user", content |-> requests[o].message]

\* C20: with several generate_response calls on one conversation, every
\* stored assistant message directly follows the user message it answers,
\* and the history sent to the LLM for a request holds no user message of
\* another request whose answer is still pending (the requests in flight
\* are those not yet answered)
C20_ConcurrentCallsStayPaired ==
    /\ \A id \in DOMAIN conversations :
          \A k \in DOMAIN conversations[id].messages :
              conversations[id].messages[k].role = "assistant"
                  => FollowsItsQuestion(conversations[id].messages, k)
    /\ \A r \in DOMAIN requests : \A o \in DOMAIN requests \ {r} :
          requests[o].conversation_id = requests[r].conversation_id
              => ~SentWith(r, o)

(***************************************************************************)
(* ProvidersService.install_webhook                                        *)
(***************************************************************************)
\* a setup hook of the provider class: whether the class itself defines it,
\* whether calling it raises, and the extra configuration it returns ("" is
\* None or an empty dict)
Hook(defined, raises, extra_config) ==
    [defined |-> defined, raises |-> raises, extra_config |-> extra_config]

NoHook == Hook(FALSE, FALSE, "")

\* DefinesNoHook with "or" in the place of "and"
DefinesNotBoth(setup_incident_webhook, setup_webhook) ==
    ~setup_incident_webhook.defined \/ ~setup_webhook.defined

\* "provider_class.__dict__.get('setup_incident_webhook') is None and
\* provider_class.__dict__.get('setup_webhook') is None"
DefinesNoHook(setup_incident_webhook, setup_webhook) ==
    ~setup_incident_webhook.defined /\ ~setup_webhook.defined

\* the extra configuration written so far into a provider configuration
ExtraOf(provider_config) ==
    IF "extra" \in DOMAIN provider_config THEN provider_config.extra ELSE {}

\* provider_config["authentication"].update(extra_config)
UpdateAuthentication(provider_config, extra_config) ==
    [k \in DOMAIN provider_config \cup {"extra"} |->
        IF k = "extra" THEN ExtraOf(provider_config) \cup {extra_config}
        ELSE provider_config[k]]

\* the state of the try block of install_webhook: the calls so far, whether
\* one raised, and the value of extra_config
HooksState(log, raised, extra_config) ==
    [log |-> log, raised |-> raised, extra_config |-> extra_config]

\* "if ... setup_incident_webhook is not None: extra_config = ..."
IncidentHookRun(h) ==
    IF ~h.defined THEN HooksState(<< >>, FALSE, "")
    ELSE HooksState(<<"setup_incident_webhook">>, h.raises,
                    IF h.raises THEN "" ELSE h.extra_config)

\* "if ... setup_webhook is not None: extra_config = ..." after state st
WebhookHookRun(st, h) ==
    IF st.raised \/ ~h.defined THEN st
    ELSE HooksState(st.log \o <<"setup_webhook">>, h.raises,
                    IF h.raises THEN "" ELSE h.extra_config)

\* the end of the try block: "if extra_config:" rewrites the secret; every
\* exception is HTTP 400
WebhookWritten(db, provider_id, key, st, f) ==
    IF st.raised
    THEN Result(db, "400", provider_id, NoScopes, st.log, {})
    ELSE IF st.extra_config = ""
    THEN Result(db, "True", provider_id, NoScopes, st.log, {})
    ELSE IF "write_secret" \in f
    THEN Result(db, "400", provider_id, NoScopes,
                st.log \o <<"write_secret">>, {})
    ELSE Result([db EXCEPT !.secrets =
                    WriteSecret(@, key,
                        UpdateAuthentication(db.secrets[key], st.extra_config))],
                "True", provider_id, NoScopes,
                st.log \o <<"write_secret">>, {})

\* the log of the calls before the try block, then the hooks
WebhookLogged(r) ==
    [r EXCEPT !.log = <<"read_secret", "get_provider", "get_or_create_api_key">> \o @]

\* ProvidersService.install_webhook(tenant_id, provider_type, provider_id)
\* for a provider class with these two hooks
install_webhook(db, tenant_id, provider_type, provider_id, setup_incident_webhook, setup_webhook, f) ==
    IF ReadSecretFails(db, SecretName(tenant_id, provider_type, provider_id), f)
    THEN Result(db, "SecretError", provider_id, NoScopes, <<"read_secret">>, {})
    ELSE IF DefinesNoHook(setup_incident_webhook, setup_webhook)
    THEN Result(db, "False", provider_id, NoScopes, <<"read_secret">>, {})
    ELSE IF FactoryRaises(
                db.secrets[SecretName(tenant_id, provider_type, provider_id)].authentication)
    THEN Result(db, "Exception", provider_id, NoScopes,
                <<"read_secret", "get_provider">>, {})
    ELSE WebhookLogged(
             WebhookWritten(db, provider_id,
                 SecretName(tenant_id, provider_type, provider_id),
                 WebhookHookRun(IncidentHookRun(setup_incident_webhook),
                                setup_webhook),
                 f))

\* install_webhook returned r or raised
WebhookInstalled(tenant_id, provider_type, setup_incident_webhook, setup_webhook, f, r) ==
    /\ SetDb(r.db)
    /\ last' = [Outcome("install_webhook", tenant_id, r) EXCEPT
                   !.type = provider_type,
                   !.hooks = <<setup_incident_webhook, setup_webhook>>,
                   !.faults = f]

InstallWebhook(tenant_id, provider_type, provider_id, setup_incident_webhook, setup_webhook, f) ==
    /\ last.op = "none"
    /\ WebhookInstalled(tenant_id, provider_type, setup_incident_webhook,
                        setup_webhook, f,
          install_webhook(CurDb, tenant_id, provider_type, provider_id,
                          setup_incident_webhook, setup_webhook, f))

(***************************************************************************)
(* SpecWebhook: providers of tenant t1 are installed and deleted, and       *)
(* webhooks installed for provider classes with and without hooks          *)
(***************************************************************************)
\* the incident hook of a class: absent, raising, returning nothing or "i"
IncidentHooks ==
    {NoHook, Hook(TRUE, TRUE, ""), Hook(TRUE, FALSE, ""), Hook(TRUE, FALSE, "i")}

\* the alert hook of a class: absent, raising, returning nothing or "w"
WebhookHooks ==
    {NoHook, Hook(TRUE, TRUE, ""), Hook(TRUE, FALSE, ""), Hook(TRUE, FALSE, "w")}

NextWebhook ==
    \/ \E n \in Names :
          Install("t1", "user", n, TypeOf(n), "good", FALSE, FALSE, TRUE, {})
    \/ \E id \in Ids : Delete("t1", id, FALSE, {})
    \/ \E ty \in Types, id \in Ids, hi \in IncidentHooks, hw \in WebhookHooks,
          f \in {{}, {"read_secret"}, {"write_secret"}} :
          InstallWebhook("t1", ty, id, hi, hw, f)
    \/ Return

SpecWebhook == Init /\ [][NextWebhook]_vars

\* the secret name of the install_webhook call recorded in l
WebhookSecret(l) == SecretName(l.tenant_id, l.type, l.id)

\* the calls install_webhook makes after reading the secret, before the
\* hooks
BeforeHooks == <<"read_secret", "get_provider", "get_or_create_api_key">>

\* the hooks the class of call l defines, in the order of the code
DefinedHooks(l) ==
    (IF l.hooks[1].defined THEN <<"setup_incident_webhook">> ELSE << >>)
    \o (IF l.hooks[2].defined THEN <<"setup_webhook">> ELSE << >>)

\* a hook of call l fails
SomeHookRaises(l) ==
    \/ l.hooks[1].defined /\ l.hooks[1].raises
    \/ l.hooks[2].defined /\ l.hooks[2].raises

\* a hook of call l returns extra configuration
SomeHookReturnsExtra(l) ==
    \/ l.hooks[1].defined /\ ~l.hooks[1].raises /\ l.hooks[1].extra_config # ""
    \/ l.hooks[2].defined /\ ~l.hooks[2].raises /\ l.hooks[2].extra_config # ""

\* C18: install_webhook returns False when the provider class defines
\* neither hook, and then instantiates no provider, creates no API key and
\* leaves the secret; otherwise it calls every defined hook, rewrites the
\* secret only when a hook returned extra configuration, returns True, and
\* answers HTTP 400 when a hook fails
C18_InstallWebhook ==
    [][last'.op = "install_webhook"
       => IF ~last'.hooks[1].defined /\ ~last'.hooks[2].defined
          THEN /\ last'.status = "False"
               /\ \A k \in DOMAIN last'.log :
                     last'.log[k] \notin {"get_provider", "get_or_create_api_key",
                                          "write_secret"}
               /\ secrets' = secrets
          ELSE IF SomeHookRaises(last')
          THEN last'.status = "400"
          ELSE /\ last'.status = "True"
               /\ last'.log = BeforeHooks \o DefinedHooks(last')
                     \/ last'.log = BeforeHooks \o DefinedHooks(last') \o <<"write_secret">>
               /\ secrets' # secrets => SomeHookReturnsExtra(last')]_vars

\* the secret of call l can be read
SecretReadable(l, s) ==
    WebhookSecret(l) \in DOMAIN s /\ "read_secret" \notin l.faults

\* the hooks call l runs: the incident hook, then the alert hook unless
\* the incident hook raised
HooksCalled(l) ==
    IF l.hooks[1].defined /\ l.hooks[1].raises THEN <<"setup_incident_webhook">>
    ELSE DefinedHooks(l)

\* the extra configurations the hooks of call l return
ReturnedExtras(l) ==
    {l.hooks[k].extra_config : k \in {j \in 1..2 : l.hooks[j].defined}} \ {""}

\* the secret s of the call's provider after the rewrite with extra
Rewritten(s, key, extra) ==
    [k \in DOMAIN s |->
        IF k # key THEN s[k]
        ELSE [authentication |-> s[key].authentication, name |-> s[key].name,
              extra |-> (IF "extra" \in DOMAIN s[key] THEN s[key].extra ELSE {})
                        \cup {extra}]]

\* C18 (amended): install_webhook first reads the secret and raises when
\* that fails, doing nothing else. With the secret read it returns False
\* for a class without hooks, having made no other call; otherwise it
\* calls the defined hooks in order until one raises, and answers HTTP 400
\* if one did; if none did it has called every defined hook, rewrites the
\* secret only with extra configuration that a hook returned, answers 400
\* if the rewrite fails and returns True otherwise
C18_InstallWebhookOnceSecretRead ==
    [][last'.op = "install_webhook"
       => IF ~SecretReadable(last', secrets)
          THEN /\ last'.status = "SecretError"
               /\ last'.log = <<"read_secret">>
               /\ secrets' = secrets
          ELSE IF ~last'.hooks[1].defined /\ ~last'.hooks[2].defined
          THEN /\ last'.status = "False"
               /\ last'.log = <<"read_secret">>
               /\ secrets' = secrets
          ELSE IF SomeHookRaises(last')
          THEN /\ last'.status = "400"
               /\ last'.log = BeforeHooks \o HooksCalled(last')
               /\ secrets' = secrets
          ELSE \/ /\ last'.status = "True"
                  /\ last'.log = BeforeHooks \o DefinedHooks(last')
                  /\ secrets' = secrets
               \/ /\ last'.status = "400"
                  /\ "write_secret" \in last'.faults
                  /\ ReturnedExtras(last') # {}
                  /\ last'.log = BeforeHooks \o DefinedHooks(last') \o <<"write_secret">>
                  /\ secrets' = secrets
               \/ /\ last'.status = "True"
                  /\ last'.log = BeforeHooks \o DefinedHooks(last') \o <<"write_secret">>
                  /\ \E extra \in ReturnedExtras(last') :
                        secrets' = Rewritten(secrets, WebhookSecret(last'), extra)]_vars

\* both hooks returned extra configuration and the secret was rewritten
\* with that of setup_webhook
C18_Witness ==
    /\ last.op = "install_webhook"
    /\ last.status = "True"
    /\ last.hooks = <<Hook(TRUE, FALSE, "i"), Hook(TRUE, FALSE, "w")>>
    /\ last.log = BeforeHooks \o <<"setup_incident_webhook", "setup_webhook", "write_secret">>
    /\ WebhookSecret(last) \in DOMAIN secrets
    /\ "extra" \in DOMAIN secrets[WebhookSecret(last)]
    /\ secrets[WebhookSecret(last)].extra = {"w"}

\* a class without hooks, its secret read: False
C18_WitnessFalse ==
    /\ last.op = "install_webhook"
    /\ last.status = "False"
    /\ last.hooks = <<NoHook, NoHook>>
    /\ WebhookSecret(last) \in DOMAIN secrets
====
